---- MODULE Spec2Model ----
(***************************************************************************)
(* UPI-style payment network: Payer PSP, Switch (npci), Remitter Bank,     *)
(* Beneficiary Bank, Payee PSP.  Spec is the payment flow (ReqPay and      *)
(* RespPay); SpecValAdd is the address-validation flow (ReqValAdd), the    *)
(* probe it sets off, and the requests the Switch's gates turn away;       *)
(* FairSpec is one chain of either flow, fairly scheduled.                 *)
(* Every hop is a synchronous HTTP POST, so one                            *)
(* external request runs as a chain of nested handler invocations: a       *)
(* stack of frames.  The Flask servers are threaded, so chains of          *)
(* different external requests interleave: a step of the model is the part *)
(* of a handler around one access to shared state (the correlation store,  *)
(* a ledger), with the posts and answers that follow it.                   *)
(*                                                                         *)
(* Strings that the code tests by prefix (message ids) are sequences of    *)
(* chunks: "debit-" and "credit-" are chunks of their own, " " is          *)
(* whitespace, anything else is opaque text.  An absent attribute and an   *)
(* empty one are both the empty string, as `x.get(a) or ""` makes them.    *)
(* Amounts are floats in the code; here they are integers in paise, and    *)
(* the wire form "r.pp" is the record [r |-> rupees, p |-> paise].         *)
(***************************************************************************)
EXTENDS Integers, Sequences, FiniteSets, TLC

VARIABLES pending, remBal, beneBal, stack, log

vars == <<pending, remBal, beneBal, stack, log>>

\* ------------------------------------------------------------- bounds
MaxThreads == 2

Threads == 1..MaxThreads

\* ------------------------------------------------------------ strings
Blank == <<>>

\* a test for equality where the code tests for a prefix
StartsWith_Equal(s, p) == s = p

StartsWith_Never(s, p) == FALSE

StartsWith(s, p) == Len(s) >= Len(p) /\ SubSeq(s, 1, Len(p)) = p

RECURSIVE LStrip(_)
LStrip(s) == IF s # <<>> /\ Head(s) = " " THEN LStrip(Tail(s)) ELSE s

RECURSIVE RStrip(_)
RStrip(s) == IF s # <<>> /\ s[Len(s)] = " " THEN RStrip(SubSeq(s, 1, Len(s) - 1)) ELSE s

Strip(s) == RStrip(LStrip(s))

\* str.upper() on the result and type codes the code compares
Upper(s) ==
    CASE s = "success" -> "SUCCESS"
      [] s = "failure" -> "FAILURE"
      [] s = "debit" -> "DEBIT"
      [] s = "credit" -> "CREDIT"
      [] OTHER -> s

\* ------------------------------------------------------------ amounts
\* float(value): the wire form "r.pp"
ParseAmount(v) == v.r * 100 + v.p

\* Amount as a client may write it when it is not a decimal number: a value
\* float() refuses, the value "nan", and a Payer without an Amount element
NotANumber == [text |-> "abc"]

NaN == [nan |-> "nan"]

NoAmount == [absent |-> TRUE]

\* payer_psp: float(amt_el.get("value") or 0), not ok when it raises
PspFloat(v) ==
    IF "text" \in DOMAIN v THEN [ok |-> FALSE, nan |-> FALSE, x |-> 0]
    ELSE IF "nan" \in DOMAIN v THEN [ok |-> TRUE, nan |-> TRUE, x |-> 0]
    ELSE [ok |-> TRUE, nan |-> FALSE, x |-> ParseAmount(v)]

\* amount < 1.0: a comparison with NaN is false
BelowOne(f) == ~f.nan /\ f.x < 100

FormatAmount_Truncate(x) == [r |-> x \div 100, p |-> 0]

\* f"{amount:.2f}"
FormatAmount(x) == [r |-> x \div 100, p |-> x % 100]

\* rem_bank: MIN_TXN_AMOUNT = 1 (rupee), in paise
MIN_TXN_AMOUNT == 100

\* bene_bank: MIN_TRANSACTION_AMOUNT = 5.0 (rupees), in paise
MIN_TRANSACTION_AMOUNT == 500

\* ------------------------------------------------------------- ledgers
PayerA == "a@paytm"
PayerC == "c@paytm"
PayeeB == "b@phonepe"

\* The Remitter Bank's ledger, in paise: balances an account can hold after
\* the seeding and earlier debits.  A can pay 100.00 many times over; C
\* holds 50.00.
RemSeed == (PayerA :> 100000) @@ (PayerC :> 5000)

\* The Beneficiary Bank's ledger: payee accounts are seeded with 0.0.
BeneSeed == (PayeeB :> 0)

\* get_account_by_vpa: filter_by(vpa=vpa.strip()).one_or_none()
GetAccount(bal, vpa) ==
    IF vpa \in DOMAIN bal THEN [found |-> TRUE, balance |-> bal[vpa]]
    ELSE [found |-> FALSE, balance |-> 0]

\* Payer PSP users and their PINs
PspUsers == (PayerA :> "1234") @@ (PayerC :> "1234")

\* ----------------------------------------------------------- messages
ReqPayMsg(msgId, txnType, payerAddr, payerCode, pin, amount, payeeAddr, payeeCode, valid) ==
    [kind |-> "ReqPay", msgId |-> msgId, txnType |-> txnType,
     payerAddr |-> payerAddr, payerCode |-> payerCode, pin |-> pin,
     amount |-> amount, payeeAddr |-> payeeAddr, payeeCode |-> payeeCode,
     valid |-> valid]

RespPayMsg(reqMsgId, result, errCode, txnType, valid) ==
    [kind |-> "RespPay", reqMsgId |-> reqMsgId, result |-> result,
     errCode |-> errCode, txnType |-> txnType, valid |-> valid]

\* Txn.amount of a ReqValAdd is optional: hasAmount tells whether it is there
ReqValAddMsg(msgId, payerAddr, payerCode, payeeAddr, payeeCode, hasAmount, amount, valid) ==
    [kind |-> "ReqValAdd", msgId |-> msgId,
     payerAddr |-> payerAddr, payerCode |-> payerCode,
     payeeAddr |-> payeeAddr, payeeCode |-> payeeCode,
     hasAmount |-> hasAmount, amount |-> amount, valid |-> valid]

RespValAddMsg(reqMsgId, result, failMsg, valid) ==
    [kind |-> "RespValAdd", reqMsgId |-> reqMsgId, result |-> result,
     failMsg |-> failMsg, valid |-> valid]

\* a request without a body
NoBody == [kind |-> "", valid |-> FALSE]

\* the body m posted with Content-Type text/plain
PlainText(m) == ("ctype" :> "text/plain") @@ m

\* every post between the nodes is made with application/xml
ContentType(m) == IF "ctype" \in DOMAIN m THEN m.ctype ELSE "application/xml"

\* ------------------------------------------------- Switch (npci): codec
\* The XSD gate: the schema files are not part of the sources, so a body
\* carries whether it conforms.
ValidateReqPay(m) == m.valid

ValidateRespPay(m) == m.valid

ValidateReqValAdd(m) == m.valid

ValidateRespValAdd(m) == m.valid

\* the gate without the test of the content type
Gate_AnyContentType(m, ok, what) ==
    CASE m.kind = "" -> [status |-> 400, body |-> "Missing body"]
      [] ~ok -> [status |-> 400, body |-> what]
      [] OTHER -> [status |-> 0, body |-> ""]

\* What the first lines of a handler answer to a request they
\* turn away (ok: the verdict of the handler's validator on the body);
\* status 0 when the request passes.
Gate(m, ok, what) ==
    CASE m.kind = "" -> [status |-> 400, body |-> "Missing body"]
      [] ContentType(m) \notin {"application/xml", "text/xml", "application/octet-stream"} ->
             [status |-> 415, body |-> "Content-Type must be application/xml or text/xml"]
      [] ~ok -> [status |-> 400, body |-> what]
      [] OTHER -> [status |-> 0, body |-> ""]

\* a DEBIT built anew from the address, amount and credential fields
ReqPayAsDebit_Rebuild(m) ==
    ReqPayMsg(Strip(m.msgId), "DEBIT", m.payerAddr, "", m.pin, m.amount, m.payeeAddr, "", m.valid)

\* _reqpay_as_debit: txn.set("type", "DEBIT") on the parsed body, which is
\* then serialised again.  Only Txn.type is rewritten; Head.msgId stays
\* the inbound one.
ReqPayAsDebit(m) == [m EXCEPT !.txnType = "DEBIT"]

NoInfo ==
    [msgId |-> Blank, payee_addr |-> "", amount |-> 0, payer_addr |-> "",
     payer_code |-> "", payee_code |-> ""]

\* a parse that yields nothing: the handler stores no entry
ParseReqPayFields_None(m) == [ok |-> FALSE, info |-> NoInfo]

ParseReqPayFields_KeyDebitPrefix(m) ==
    IF Strip(m.msgId) = Blank THEN [ok |-> FALSE, info |-> NoInfo]
    ELSE [ok |-> TRUE,
          info |-> [msgId |-> <<"debit-">> \o Strip(m.msgId), payee_addr |-> m.payeeAddr,
                    amount |-> ParseAmount(m.amount), payer_addr |-> m.payerAddr,
                    payer_code |-> m.payerCode, payee_code |-> m.payeeCode]]

\* None when Head.msgId is blank after strip()
ParseReqPayFields(m) ==
    IF Strip(m.msgId) = Blank THEN [ok |-> FALSE, info |-> NoInfo]
    ELSE [ok |-> TRUE,
          info |-> [msgId |-> Strip(m.msgId), payee_addr |-> m.payeeAddr,
                    amount |-> ParseAmount(m.amount), payer_addr |-> m.payerAddr,
                    payer_code |-> m.payerCode, payee_code |-> m.payeeCode]]

ParseRespPay(m) ==
    [reqMsgId |-> Strip(m.reqMsgId), result |-> m.result, errCode |-> m.errCode,
     txnType |-> m.txnType]

BuildReqPayCredit(info) ==
    ReqPayMsg(<<"credit-">> \o info.msgId, "CREDIT",
              IF info.payer_addr = "" THEN "NPCI" ELSE info.payer_addr,
              info.payer_code, "", FormatAmount(info.amount),
              info.payee_addr, info.payee_code, TRUE)

BuildRespPayFinal(original_req_msg_id, result, err_code) ==
    RespPayMsg(original_req_msg_id, result, err_code, "PAY", TRUE)

\* _build_reqpay_debit: the probe built from a ReqValAdd, None without a
\* payer or a payee address.  Head.msgId is taken as it is, "valadd" when
\* empty; the amount is the placeholder 1.00; no Creds.
BuildReqPayDebit(m) ==
    [ok |-> m.payerAddr # "" /\ m.payeeAddr # "",
     msg |-> ReqPayMsg(<<"debit-">> \o (IF m.msgId = Blank THEN <<"valadd">> ELSE m.msgId),
                       "DEBIT", m.payerAddr, m.payerCode, "",
                       [r |-> 1, p |-> 0], m.payeeAddr, m.payeeCode, TRUE)]

\* the entry keyed by the Head.msgId alone
ReqValAddToCreditInfo_KeyPlain(m) ==
    [msgId |-> Strip(IF m.msgId = Blank THEN <<"valadd">> ELSE m.msgId),
     payee_addr |-> m.payeeAddr, amount |-> 100, payer_addr |-> m.payerAddr,
     payer_code |-> m.payerCode, payee_code |-> m.payeeCode]

\* _reqvaladd_to_credit_info: the entry stored for the probe, keyed
\* "debit-" + the stripped Head.msgId, with amount 1.0
ReqValAddToCreditInfo(m) ==
    [msgId |-> <<"debit-">> \o Strip(IF m.msgId = Blank THEN <<"valadd">> ELSE m.msgId),
     payee_addr |-> m.payeeAddr, amount |-> 100, payer_addr |-> m.payerAddr,
     payer_code |-> m.payerCode, payee_code |-> m.payeeCode]

\* ----------------------------------------- Switch: correlation store
DictPut_Replace(p, k, e) == [x \in {k} |-> e]

\* a store that leaves an entry already held under the key as it is
DictPut_KeepFirst(p, k, e) == [x \in DOMAIN p \cup {k} |-> IF x \in DOMAIN p THEN p[x] ELSE e]

\* _pending_debits[key] = info
DictPut(p, k, e) == [x \in DOMAIN p \cup {k} |-> IF x = k THEN e ELSE p[x]]

\* a pop that leaves an entry without a payee address in the dict
DictPop_KeepUnpayable(p, k) ==
    [hit |-> k \in DOMAIN p,
     info |-> IF k \in DOMAIN p THEN p[k] ELSE NoInfo,
     rest |-> IF k \in DOMAIN p /\ p[k].payee_addr = "" THEN p
              ELSE [x \in DOMAIN p \ {k} |-> p[x]]]

DictPop_Get(p, k) ==
    [hit |-> k \in DOMAIN p,
     info |-> IF k \in DOMAIN p THEN p[k] ELSE NoInfo,
     rest |-> p]

\* a pop that empties the dict when the key is absent
DictPop_MissClears(p, k) ==
    IF k \in DOMAIN p
    THEN [hit |-> TRUE, info |-> p[k], rest |-> [x \in DOMAIN p \ {k} |-> p[x]]]
    ELSE [hit |-> FALSE, info |-> NoInfo, rest |-> [x \in {} |-> NoInfo]]

\* a pop that takes every entry out with the one it returns
DictPop_All(p, k) ==
    [hit |-> k \in DOMAIN p,
     info |-> IF k \in DOMAIN p THEN p[k] ELSE NoInfo,
     rest |-> [x \in {} |-> NoInfo]]

\* _pending_debits.pop(key, None): one atomic dict operation
DictPop(p, k) ==
    [hit |-> k \in DOMAIN p,
     info |-> IF k \in DOMAIN p THEN p[k] ELSE NoInfo,
     rest |-> [x \in DOMAIN p \ {k} |-> p[x]]]

\* the store q holds, for every key but k, what the store p held
Kept(p, q, k) ==
    /\ DOMAIN q \ {k} = DOMAIN p \ {k}
    /\ \A x \in DOMAIN p \ {k} : q[x] = p[x]

\* ------------------------------------------------------ Remitter Bank
RemParseReqPay(m) ==
    [ok |-> m.payerAddr # "" /\ Strip(m.msgId) # Blank,
     msgId |-> Strip(m.msgId), payerAddr |-> m.payerAddr,
     payerCode |-> m.payerCode, amount |-> ParseAmount(m.amount)]

BuildRespPayDebit(parsed, result, err_code) ==
    RespPayMsg(parsed.msgId, result, err_code, "DEBIT", TRUE)

\* the chain without its test of the floor
RemDecide_NoFloor(acct, amount) ==
    CASE ~acct.found -> "PAYER_NOT_FOUND"
      [] acct.balance < amount -> "INSUFFICIENT_BALANCE"
      [] OTHER -> ""

\* the chain without its test of the balance
RemDecide_NoBalanceTest(acct, amount) ==
    CASE ~acct.found -> "PAYER_NOT_FOUND"
      [] amount < MIN_TXN_AMOUNT -> "MIN_AMOUNT_VIOLATION"
      [] OTHER -> ""

\* the if/elif chain that decides a debit, on the account read before it
RemDecide(acct, amount) ==
    CASE ~acct.found -> "PAYER_NOT_FOUND"
      [] amount < MIN_TXN_AMOUNT -> "MIN_AMOUNT_VIOLATION"
      [] acct.balance < amount -> "INSUFFICIENT_BALANCE"
      [] OTHER -> ""

\* --------------------------------------------------- Beneficiary Bank
\* None when Head.msgId is blank or the amount is below the bank's minimum
BeneParseReqPayCredit(m) ==
    [ok |-> Strip(m.msgId) # Blank /\ ParseAmount(m.amount) >= MIN_TRANSACTION_AMOUNT,
     msgId |-> Strip(m.msgId), txn_type |-> m.txnType,
     payee_addr |-> m.payeeAddr, amount |-> ParseAmount(m.amount)]

\* ---------------------------------------------------------- Payee PSP
PayeeV == "payee@psp"

\* the seeded ValAddProfiles: vpa -> code (the seed sets none)
ValAddProfiles == (PayeeV :> "") @@ ("merchant@payeepsp" :> "")

\* payee_psp reqvaladd after parsing: FAILURE for a profile with code 1111
\* and for a Txn.amount below 1, SUCCESS otherwise, found or not; always
\* a RespValAdd for the request's Head.msgId, with status 200
PayeePspResult(m) ==
    CASE m.payeeAddr \in DOMAIN ValAddProfiles /\ ValAddProfiles[m.payeeAddr] = "1111" ->
             [result |-> "FAILURE", failMsg |-> "Code Blocked for Demo"]
      [] m.hasAmount /\ ParseAmount(m.amount) < 100 ->
             [result |-> "FAILURE", failMsg |-> ""]
      [] OTHER -> [result |-> "SUCCESS", failMsg |-> ""]

\* ---------------------------------------------------------- Payer PSP
\* PspValidate without the test of the amount against the floor
PspValidate_NoFloor(m) ==
    CASE m.payerAddr = "" -> "Invalid ReqPay: missing Payer.addr"
      [] "absent" \in DOMAIN m.amount -> "Invalid ReqPay: missing Amount element"
      [] ~PspFloat(m.amount).ok -> "Internal error"
      [] m.pin = "" -> "MISSING_PIN"
      [] m.payerAddr \notin DOMAIN PspUsers -> "PAYER_NOT_FOUND"
      [] PspUsers[m.payerAddr] # m.pin -> "INVALID_PIN"
      [] m.payeeCode = "1111" -> "FAIL"
      [] OTHER -> ""

\* The checks of the ReqPay handler, in order; "" when it forwards.  A
\* float() that raises is caught by `except Exception`.
PspValidate(m) ==
    CASE m.payerAddr = "" -> "Invalid ReqPay: missing Payer.addr"
      [] "absent" \in DOMAIN m.amount -> "Invalid ReqPay: missing Amount element"
      [] ~PspFloat(m.amount).ok -> "Internal error"
      [] BelowOne(PspFloat(m.amount)) -> "INVALID_AMOUNT"
      [] m.pin = "" -> "MISSING_PIN"
      [] m.payerAddr \notin DOMAIN PspUsers -> "PAYER_NOT_FOUND"
      [] PspUsers[m.payerAddr] # m.pin -> "INVALID_PIN"
      [] m.payeeCode = "1111" -> "FAIL"
      [] OTHER -> ""

\* the status answered with the error e: 500 from `except Exception`
PspStatus(e) == IF e = "Internal error" THEN 500 ELSE 400

\* ------------------------------------------------ frames and the log
\* One handler invocation.  pc: "recv" the request is delivered, "apply"
\* the bank has read the account, "wait" the handler is blocked in its
\* downstream call; for the Switch's reqvaladd, "back" the Payee PSP has
\* answered (loc is its answer) and "probe" the handler is blocked in its
\* second call, the one to the Remitter Bank.
Frame(h, pc, msg, loc) == [h |-> h, pc |-> pc, msg |-> msg, loc |-> loc]

NoLoc == "-"

\* What a chain did, in order: d is the depth of the frame that did it.
\* A "store" and a "pop" carry what the operation did to the correlation
\* store: whether the popped key is gone, whether the other keys are kept.
Ev(ev, h, d, x) == [ev |-> ev, h |-> h, d |-> d, x |-> x]

Top(t) == stack[t][Len(stack[t])]

Depth(t) == Len(stack[t])

At(t, h, pc) == stack[t] # <<>> /\ Top(t).h = h /\ Top(t).pc = pc

SetTop(stk, f) == [stk EXCEPT ![Len(stk)] = f]

Resp(status, body) == [status |-> status, body |-> body]

\* a response whose body is the XML message m, Content-Type application/xml
RespXml(status, m) == [status |-> status, body |-> m.kind, xml |-> m]

\* the Switch's reqpay answering 202 whatever the Remitter Bank answered
AfterCall_AlwaysAccepted(h, r) ==
    CASE h = "psp.reqpay" -> r
      [] h = "npci.reqpay" -> [status |-> 202, body |-> "accepted"]
      [] h = "rem.reqpay" -> [status |-> 202, body |-> "accepted"]
      [] h = "bene.reqpay" -> [status |-> 202, body |-> "accepted"]
      [] h = "psp.reqvaladd" -> r
      [] h = "npci.reqvaladd" -> r
      [] OTHER -> [status |-> 200, body |-> "received"]

\* What a handler answers once its downstream call has answered r.
AfterCall(h, r) ==
    CASE h = "psp.reqpay" -> r
      [] h = "npci.reqpay" -> IF r.status >= 400 THEN r ELSE Resp(202, "accepted")
      [] h = "rem.reqpay" -> Resp(202, "accepted")
      [] h = "bene.reqpay" -> Resp(202, "accepted")
      [] h = "psp.reqvaladd" -> r
      [] h = "npci.reqvaladd" -> r
      [] OTHER -> Resp(200, "received")

\* every handler answering 502 when its call raised
AfterFail_BadGateway(h) == [status |-> 502, body |-> "unreachable"]

\* every handler going on as if the call had been answered
AfterFail_Accepted(h) == [status |-> 202, body |-> "accepted"]

\* What a handler answers when its downstream call raised RequestException.
AfterFail(h) ==
    CASE h = "psp.reqpay" -> Resp(502, "NPCI unreachable")
      [] h = "npci.reqpay" -> Resp(502, "REM_BANK_UNREACHABLE")
      [] h = "rem.reqpay" -> Resp(202, "accepted")
      [] h = "bene.reqpay" -> Resp(202, "accepted")
      [] h = "psp.reqvaladd" -> Resp(502, "NPCI unreachable")
      [] h = "npci.reqvaladd" -> Resp(502, "Payee PSP unreachable")
      [] OTHER -> Resp(200, "received")

\* a return that never reaches the caller: the caller stays in its call
Unwind_TopOnly(stk, lg, r) ==
    [stack |-> SubSeq(stk, 1, Len(stk) - 1),
     log |-> Append(lg, Ev("resp", stk[Len(stk)].h, Len(stk), r))]

\* The top frame answers r; every caller below it was blocked in that call
\* and answers in turn, none of them touching shared state.  The Switch's
\* reqvaladd is the one handler that goes on after its first call: it
\* resumes with the answer.
RECURSIVE Unwind(_, _, _)
Unwind(stk, lg, r) ==
    LET lg2 == Append(lg, Ev("resp", stk[Len(stk)].h, Len(stk), r))
        rest == SubSeq(stk, 1, Len(stk) - 1)
        caller == rest[Len(rest)]
    IN IF rest = <<>> THEN [stack |-> <<>>, log |-> lg2]
       ELSE IF caller.h = "npci.reqvaladd" /\ caller.pc = "wait"
       THEN [stack |-> SetTop(rest, [caller EXCEPT !.pc = "back", !.loc = r]),
             log |-> lg2]
       ELSE Unwind(rest, lg2, AfterCall(caller.h, r))

Done(t) == stack[t] = <<>> /\ log[t] # <<>>

\* the top frame of stk answers r and the chain unwinds
Answer(t, stk, lg, r) ==
    LET u == Unwind(stk, lg, r)
    IN /\ stack' = [stack EXCEPT ![t] = u.stack]
       /\ log' = [log EXCEPT ![t] = u.log]

\* a post that is made a second time when the first raised
Post_Retry(t, stk, lg, h, m) ==
    LET top == stk[Len(stk)]
    IN /\ stack' = [stack EXCEPT ![t] =
                       Append(SetTop(stk, [top EXCEPT !.pc = "wait"]),
                              Frame(h, "recv", m, NoLoc))]
       /\ \E first \in BOOLEAN :
             log' = [log EXCEPT ![t] =
                       lg \o (IF first THEN <<>>
                              ELSE <<Ev("send", top.h, Len(stk),
                                        [to |-> h, msg |-> m, ok |-> FALSE])>>)
                          \o <<Ev("send", top.h, Len(stk), [to |-> h, msg |-> m, ok |-> TRUE]),
                               Ev("recv", h, Len(stk) + 1, m)>>]

\* the top frame of stk posts m to handler h: delivered, and the handler
\* blocks in the call, or requests raises RequestException
Post(t, stk, lg, h, m) ==
    LET top == stk[Len(stk)]
    IN \/ /\ stack' = [stack EXCEPT ![t] =
                          Append(SetTop(stk, [top EXCEPT !.pc = "wait"]),
                                 Frame(h, "recv", m, NoLoc))]
          /\ log' = [log EXCEPT ![t] =
                        lg \o <<Ev("send", top.h, Len(stk), [to |-> h, msg |-> m, ok |-> TRUE]),
                                Ev("recv", h, Len(stk) + 1, m)>>]
       \/ Answer(t, stk,
                 Append(lg, Ev("send", top.h, Len(stk), [to |-> h, msg |-> m, ok |-> FALSE])),
                 AfterFail(top.h))

\* ------------------------------------------- Switch: the routing table
NoPop_Clears(p) == [hit |-> FALSE, info |-> NoInfo, rest |-> [x \in {} |-> NoInfo]]

\* no lookup is made: the store stays as it is
NoPop(p) == [hit |-> FALSE, info |-> NoInfo, rest |-> p]

StripCreditPrefix_Keep(s) == s

\* req_msg_id[7:], taken only when the id starts with "credit-"
StripCreditPrefix(s) == SubSeq(s, 2, Len(s))

FinalErrCode_Fixed(pr) == "INSUFFICIENT_BALANCE"

\* err_code = pr.get("errCode") or "INSUFFICIENT_BALANCE"
FinalErrCode(pr) == IF pr.errCode = "" THEN "INSUFFICIENT_BALANCE" ELSE pr.errCode

\* The branch of the RespPay handler taken for the parsed message pr with
\* the store p: what is popped, and the one message it sends, if any.
RouteRespPay(p, pr) ==
    LET result == Upper(pr.result)
        type == Upper(pr.txnType)
        id == pr.reqMsgId
        pop == IF id # Blank THEN DictPop(p, id) ELSE NoPop(p)
        none == [branch |-> "none", pops |-> FALSE, pop |-> NoPop(p),
                 sends |-> FALSE, to |-> "", msg |-> NoLoc]
    IN CASE result = "SUCCESS" /\ type = "DEBIT" ->
              [branch |-> "debit-success", pops |-> id # Blank, pop |-> pop,
               sends |-> pop.hit /\ pop.info.payee_addr # "",
               to |-> "bene.reqpay", msg |-> BuildReqPayCredit(pop.info)]
         [] type = "DEBIT" /\ result = "FAILURE" ->
              [branch |-> "debit-failure", pops |-> id # Blank, pop |-> pop,
               sends |-> id # Blank /\ ~StartsWith(id, <<"debit-">>),
               to |-> "psp.resppay",
               msg |-> BuildRespPayFinal(id, "FAILURE", FinalErrCode(pr))]
         [] type = "CREDIT" ->
              [none EXCEPT
                 !.branch = "credit",
                 !.sends = /\ result = "SUCCESS"
                           /\ StartsWith(id, <<"credit-">>)
                           /\ ~StartsWith(id, <<"credit-", "debit-">>),
                 !.to = "psp.resppay",
                 !.msg = BuildRespPayFinal(StripCreditPrefix(id), "SUCCESS", "")]
         [] OTHER -> none

\* ------------------------------------------------------------- inputs
M1 == <<"m1">>
M1Pad == <<"m1", " ">>
DM1Pad == <<"debit-", "m1", " ">>
DM1 == <<"debit-", "m1">>
CM1 == <<"credit-", "m1">>
CDM1 == <<"credit-", "debit-", "m1">>

Amt(r, p) == [r |-> r, p |-> p]

BaseReqPay == ReqPayMsg(M1, "PAY", PayerA, "", "1234", Amt(100, 0), PayeeB, "", TRUE)

\* what a client posts to the Payer PSP
ClientReqPays ==
    <<BaseReqPay,
      [BaseReqPay EXCEPT !.msgId = DM1Pad, !.amount = Amt(1, 0)],
      [BaseReqPay EXCEPT !.amount = Amt(0, 50)],
      [BaseReqPay EXCEPT !.payerAddr = PayerC],
      [BaseReqPay EXCEPT !.pin = "0000"],
      [BaseReqPay EXCEPT !.payeeCode = "1111"],
      [BaseReqPay EXCEPT !.payeeAddr = ""],
      [BaseReqPay EXCEPT !.valid = FALSE]>>

\* what any other sender posts to the Switch's ReqPay endpoint
SwitchReqPays ==
    <<[BaseReqPay EXCEPT !.amount = Amt(0, 50)],
      [BaseReqPay EXCEPT !.payerCode = "1111"],
      [BaseReqPay EXCEPT !.msgId = <<" ">>],
      [BaseReqPay EXCEPT !.payerAddr = "x@paytm"]>>

\* RespPay bodies posted to the Switch by a sender other than the banks'
\* handlers: a re-delivery, a duplicate, a reply to a leg of an earlier run
EnvRespPays ==
    <<RespPayMsg(M1, "SUCCESS", "", "DEBIT", TRUE),
      RespPayMsg(Blank, "SUCCESS", "", "DEBIT", TRUE),
      RespPayMsg(M1, "FAILURE", "E1", "DEBIT", TRUE),
      RespPayMsg(M1, "FAILURE", "", "DEBIT", TRUE),
      RespPayMsg(Blank, "FAILURE", "E1", "DEBIT", TRUE),
      RespPayMsg(CM1, "SUCCESS", "", "CREDIT", TRUE),
      RespPayMsg(M1, "SUCCESS", "", "CREDIT", TRUE),
      RespPayMsg(CDM1, "SUCCESS", "", "CREDIT", TRUE),
      RespPayMsg(CM1, "FAILURE", "PAYEE_NOT_FOUND", "CREDIT", TRUE),
      RespPayMsg(M1, "success", "", "debit", TRUE),
      RespPayMsg(M1, "SUCCESS", "", "DEBIT", FALSE),
      RespPayMsg(DM1, "FAILURE", "", "DEBIT", TRUE)>>

\* every external request the model draws from, as (entry handler, body)
Tag(h, ms) == [i \in DOMAIN ms |-> [h |-> h, msg |-> ms[i]]]

\* the requests of the payment flow
PayRequests ==
    Tag("psp.reqpay", ClientReqPays) \o Tag("npci.reqpay", SwitchReqPays)
        \o Tag("npci.resppay", EnvRespPays)

BaseReqValAdd == ReqValAddMsg(M1, PayerA, "", PayeeV, "", FALSE, Amt(0, 0), TRUE)

\* what a client posts to the Payer PSP's reqvaladd
ClientReqValAdds ==
    <<BaseReqValAdd,
      [BaseReqValAdd EXCEPT !.hasAmount = TRUE, !.amount = Amt(0, 50)],
      [BaseReqValAdd EXCEPT !.payerAddr = ""],
      [BaseReqValAdd EXCEPT !.payerCode = "1111"],
      [BaseReqValAdd EXCEPT !.valid = FALSE],
      [BaseReqValAdd EXCEPT !.msgId = M1Pad]>>

\* requests that the first lines of the Switch's handlers turn away
SwitchReqValAdds == <<NoBody, PlainText(BaseReqValAdd)>>

GateReqPays == <<NoBody, PlainText(BaseReqPay), [BaseReqPay EXCEPT !.valid = FALSE]>>

GateRespPays == <<NoBody, PlainText(RespPayMsg(DM1, "SUCCESS", "", "DEBIT", TRUE))>>

\* a RespPay(DEBIT, FAILURE) posted to the Switch for the id of a probe
ProbeRespPays == <<RespPayMsg(DM1, "FAILURE", "E1", "DEBIT", TRUE)>>

\* a payment whose own message id is the key of the probe for m1
ProbeKeyReqPays == <<[BaseReqPay EXCEPT !.msgId = DM1]>>

\* what a client posts to the Payer PSP beside the ReqPays above: the
\* requests its first lines and its checks turn away, and a ReqPay with the
\* amount "nan", taken as one the Switch's schema refuses
PspGateReqPays ==
    <<NoBody, PlainText(BaseReqPay),
      [BaseReqPay EXCEPT !.payerAddr = ""],
      [BaseReqPay EXCEPT !.amount = NoAmount],
      [BaseReqPay EXCEPT !.amount = NotANumber],
      [BaseReqPay EXCEPT !.amount = NaN, !.valid = FALSE],
      [BaseReqPay EXCEPT !.pin = ""],
      [BaseReqPay EXCEPT !.payerAddr = "x@paytm"]>>

\* the requests of the address-validation flow and of the gates, the
\* payment that runs beside a probe, and the Payer PSP's gate
ValAddRequests ==
    Tag("psp.reqvaladd", ClientReqValAdds) \o Tag("npci.reqvaladd", SwitchReqValAdds)
        \o Tag("npci.reqpay", GateReqPays) \o Tag("npci.resppay", GateRespPays)
        \o Tag("npci.resppay", ProbeRespPays) \o Tag("npci.reqpay", ProbeKeyReqPays)
        \o Tag("psp.reqpay", PspGateReqPays)

Requests == PayRequests \o ValAddRequests

\* the requests to endpoint h that the payment flow is run with
RequestsTo(h) == {i \in DOMAIN PayRequests : Requests[i].h = h}

\* the requests to endpoint h that the address-validation flow is run with
ValAddRequestsTo(h) ==
    {i \in DOMAIN Requests :
        /\ Requests[i].h = h
        /\ i > Len(PayRequests) \/ (h = "npci.resppay" /\ ~Requests[i].msg.valid)}

\* the request that thread t runs: the first event of its log
RequestOf(t) ==
    CHOOSE i \in DOMAIN Requests :
        Requests[i] = [h |-> log[t][1].h, msg |-> log[t][1].x]

\* Threads carry no identity in the code, and the arrival of a request at
\* its entry handler touches no shared state, so every run is a renaming
\* of one in which the threads start in order and run requests in the
\* order of Requests.
CanStart(t, i) ==
    /\ stack[t] = <<>> /\ log[t] = <<>>
    /\ IF t = 1 THEN TRUE ELSE log[t - 1] # <<>> /\ RequestOf(t - 1) <= i

\* ------------------------------------------------------------ actions
Init ==
    /\ pending = [k \in {} |-> NoInfo]
    /\ remBal = RemSeed
    /\ beneBal = BeneSeed
    /\ stack = [t \in Threads |-> <<>>]
    /\ log = [t \in Threads |-> <<>>]

\* payer_psp reqpay on the body m: body and Content-Type, then the checks,
\* then the body is forwarded as received and the Switch's answer passed on
PayerPspReqPayStep(t, m) ==
    LET stk == <<Frame("psp.reqpay", "recv", m, NoLoc)>>
        lg == <<Ev("recv", "psp.reqpay", 1, m)>>
        gate == Gate(m, TRUE, "")
        e == PspValidate(m)
    IN /\ IF gate.status # 0 THEN Answer(t, stk, lg, gate)
          ELSE IF e # "" THEN Answer(t, stk, lg, Resp(PspStatus(e), e))
          ELSE Post(t, stk, lg, "npci.reqpay", m)
       /\ UNCHANGED <<pending, remBal, beneBal>>

\* payer_psp reqpay on a client's ReqPay
PayerPspReqPay(t) ==
    \E i \in RequestsTo("psp.reqpay") :
        CanStart(t, i) /\ PayerPspReqPayStep(t, Requests[i].msg)

\* payer_psp reqpay on a request of its gate set
PspGateReqPay(t) ==
    \E i \in ValAddRequestsTo("psp.reqpay") :
        CanStart(t, i) /\ PayerPspReqPayStep(t, Requests[i].msg)

\* npci reqpay on the body m of the top frame of stk: gate, relabel as
\* DEBIT, store the fields, then dispatch to the Remitter Bank: 502 when it
\* is unreachable, its answer when that is an error, 202 otherwise
NpciReqPayStep(t, stk, lg) ==
    /\ LET m == stk[Len(stk)].msg
           pf == ParseReqPayFields(m)
           after == DictPut(pending, pf.info.msgId, pf.info)
           lg2 == IF pf.ok
                  THEN Append(lg, Ev("store", "npci.reqpay", Len(stk),
                                     [key |-> pf.info.msgId, info |-> pf.info,
                                      kept |-> Kept(pending, after, pf.info.msgId)]))
                  ELSE lg
           gate == Gate(m, ValidateReqPay(m), "ReqPay does not match schema")
       IN IF gate.status # 0
          THEN /\ Answer(t, stk, lg, gate)
               /\ UNCHANGED pending
          ELSE /\ pending' = IF pf.ok THEN after ELSE pending
               /\ Post(t, stk, lg2, "rem.reqpay", ReqPayAsDebit(m))
    /\ UNCHANGED <<remBal, beneBal>>

\* npci reqpay on the ReqPay the Payer PSP forwarded
NpciReqPay(t) ==
    /\ At(t, "npci.reqpay", "recv")
    /\ NpciReqPayStep(t, stack[t], log[t])

\* npci reqpay on a ReqPay posted to the Switch by any other sender
SwitchReqPay(t) ==
    \E i \in RequestsTo("npci.reqpay") :
        /\ CanStart(t, i)
        /\ NpciReqPayStep(t, <<Frame("npci.reqpay", "recv", Requests[i].msg, NoLoc)>>,
                          <<Ev("recv", "npci.reqpay", 1, Requests[i].msg)>>)

\* rem_bank reqpay, up to the account read
RemReqPay(t) ==
    /\ At(t, "rem.reqpay", "recv")
    /\ LET m == Top(t).msg
           parsed == RemParseReqPay(m)
       IN IF ~parsed.ok
          THEN Answer(t, stack[t], log[t],
                      Resp(400, "Invalid ReqPay: could not parse Payer.addr and Amount"))
          ELSE IF parsed.payerCode = "1111"
          THEN Answer(t, stack[t], log[t], Resp(400, "Code Blocked for Demo"))
          ELSE /\ stack' = [stack EXCEPT ![t] =
                               SetTop(@, Frame("rem.reqpay", "apply", m,
                                               [parsed |-> parsed,
                                                acct |-> GetAccount(remBal, parsed.payerAddr)]))]
               /\ UNCHANGED log
    /\ UNCHANGED <<pending, remBal, beneBal>>

\* rem_bank reqpay, from the if/elif chain on: reject with 400, or write the new
\* balance and post RespPay(DEBIT, SUCCESS) to the Switch
RemReqPayDebit(t) ==
    /\ At(t, "rem.reqpay", "apply")
    /\ LET parsed == Top(t).loc.parsed
           acct == Top(t).loc.acct
           err == RemDecide(acct, parsed.amount)
       IN IF err # ""
          THEN /\ Answer(t, stack[t], log[t], Resp(400, err))
               /\ UNCHANGED remBal
          ELSE /\ remBal' = [remBal EXCEPT ![parsed.payerAddr] = acct.balance - parsed.amount]
               /\ Post(t, stack[t],
                       Append(log[t], Ev("debit", "rem.reqpay", Depth(t),
                                         [vpa |-> parsed.payerAddr, amount |-> parsed.amount])),
                       "npci.resppay", BuildRespPayDebit(parsed, "SUCCESS", ""))
    /\ UNCHANGED <<pending, beneBal>>

\* npci resppay on the body m of the top frame of stk: gate, parse, pop,
\* and the dispatch of the CREDIT leg or of the final RespPay when the
\* branch sends one; always answered 200
NpciRespPayStep(t, stk, lg) ==
    /\ LET m == stk[Len(stk)].msg
           pr == ParseRespPay(m)
           rt == RouteRespPay(pending, pr)
           lg2 == IF rt.pops
                  THEN Append(lg, Ev("pop", "npci.resppay", Len(stk),
                                     [key |-> pr.reqMsgId, hit |-> rt.pop.hit,
                                      info |-> rt.pop.info,
                                      removed |-> pr.reqMsgId \notin DOMAIN rt.pop.rest,
                                      kept |-> Kept(pending, rt.pop.rest, pr.reqMsgId)]))
                  ELSE lg
           gate == Gate(m, ValidateRespPay(m), "RespPay does not match schema")
       IN IF gate.status # 0
          THEN /\ Answer(t, stk, lg, gate)
               /\ UNCHANGED pending
          ELSE /\ pending' = rt.pop.rest
               /\ IF rt.sends THEN Post(t, stk, lg2, rt.to, rt.msg)
                  ELSE Answer(t, stk, lg2, Resp(200, "received"))
    /\ UNCHANGED <<remBal, beneBal>>

\* npci resppay on the RespPay the Remitter Bank posted
NpciRespPay(t) ==
    /\ At(t, "npci.resppay", "recv")
    /\ NpciRespPayStep(t, stack[t], log[t])

\* npci resppay on a RespPay posted to the Switch from outside the banks'
\* handlers
EnvRespPay(t) ==
    \E i \in RequestsTo("npci.resppay") :
        /\ CanStart(t, i)
        /\ NpciRespPayStep(t, <<Frame("npci.resppay", "recv", Requests[i].msg, NoLoc)>>,
                           <<Ev("recv", "npci.resppay", 1, Requests[i].msg)>>)

\* bene_bank reqpay: a body that does not parse as a CREDIT is answered 202
\* and ignored; for any other the handler reads the account and then calls
\* _is_payee_code_blocked, a name the module never defines: NameError, the
\* request ends 500 before any balance is written or any RespPay is built.
BeneReqPay(t) ==
    /\ At(t, "bene.reqpay", "recv")
    /\ LET parsed == BeneParseReqPayCredit(Top(t).msg)
       IN IF ~parsed.ok \/ Upper(parsed.txn_type) # "CREDIT"
          THEN Answer(t, stack[t], log[t], Resp(202, "accepted"))
          ELSE Answer(t, stack[t], log[t], Resp(500, "NameError"))
    /\ UNCHANGED <<pending, remBal, beneBal>>

\* payer_psp resppay: the final RespPay is logged and answered 200
PayerPspRespPay(t) ==
    /\ At(t, "psp.resppay", "recv")
    /\ Answer(t, stack[t], log[t], Resp(200, "received"))
    /\ UNCHANGED <<pending, remBal, beneBal>>

\* payer_psp reqvaladd: the body is forwarded to the Switch as received and
\* the Switch's answer is passed on
PayerPspReqValAdd(t) ==
    \E i \in ValAddRequestsTo("psp.reqvaladd") :
        LET m == Requests[i].msg
            stk == <<Frame("psp.reqvaladd", "recv", m, NoLoc)>>
            lg == <<Ev("recv", "psp.reqvaladd", 1, m)>>
            gate == Gate(m, TRUE, "")
        IN /\ CanStart(t, i)
           /\ IF gate.status # 0 THEN Answer(t, stk, lg, gate)
              ELSE Post(t, stk, lg, "npci.reqvaladd", m)
           /\ UNCHANGED <<pending, remBal, beneBal>>

\* npci reqvaladd on the body m of the top frame of stk, up to the call of
\* the Payee PSP: gate, then post the body as received
NpciReqValAddStep(t, stk, lg) ==
    /\ LET m == stk[Len(stk)].msg
           gate == Gate(m, ValidateReqValAdd(m), "ReqValAdd does not match schema")
       IN IF gate.status # 0 THEN Answer(t, stk, lg, gate)
          ELSE Post(t, stk, lg, "payee.reqvaladd", m)
    /\ UNCHANGED <<pending, remBal, beneBal>>

\* npci reqvaladd on the ReqValAdd the Payer PSP forwarded
NpciReqValAdd(t) ==
    /\ At(t, "npci.reqvaladd", "recv")
    /\ NpciReqValAddStep(t, stack[t], log[t])

\* npci reqvaladd on a request posted to the Switch by any other sender
SwitchReqValAdd(t) ==
    \E i \in ValAddRequestsTo("npci.reqvaladd") :
        /\ CanStart(t, i)
        /\ NpciReqValAddStep(t, <<Frame("npci.reqvaladd", "recv", Requests[i].msg, NoLoc)>>,
                             <<Ev("recv", "npci.reqvaladd", 1, Requests[i].msg)>>)

\* payee_psp reqvaladd: a RespValAdd for the request's Head.msgId with
\* status 200; whether that body conforms to the RespValAdd schema is not
\* decided by the sources
PayeePspReqValAdd(t) ==
    /\ At(t, "payee.reqvaladd", "recv")
    /\ \E v \in BOOLEAN :
         LET m == Top(t).msg
             res == PayeePspResult(m)
         IN Answer(t, stack[t], log[t],
                   RespXml(200, RespValAddMsg(m.msgId, res.result, res.failMsg, v)))
    /\ UNCHANGED <<pending, remBal, beneBal>>

\* npci reqvaladd once the Payee PSP has answered r: a 200 with an XML body
\* is validated (502 when invalid); then, when _build_reqpay_debit yields a
\* probe, the entry is stored and the probe posted to the Remitter Bank,
\* whose answer replaces r; a failed post leaves r.  The handler returns r.
NpciReqValAddProbe(t) ==
    /\ At(t, "npci.reqvaladd", "back")
    /\ LET m == Top(t).msg
           r == Top(t).loc
           probe == BuildReqPayDebit(m)
           info == ReqValAddToCreditInfo(m)
           after == DictPut(pending, info.msgId, info)
           lg2 == Append(log[t], Ev("store", "npci.reqvaladd", Depth(t),
                                    [key |-> info.msgId, info |-> info,
                                     kept |-> Kept(pending, after, info.msgId)]))
       IN IF ~(r.status = 200 /\ "xml" \in DOMAIN r)
          THEN Answer(t, stack[t], log[t], r) /\ UNCHANGED pending
          ELSE IF ~ValidateRespValAdd(r.xml)
          THEN /\ Answer(t, stack[t], log[t], Resp(502, "Invalid RespValAdd from Payee PSP"))
               /\ UNCHANGED pending
          ELSE IF ~probe.ok
          THEN Answer(t, stack[t], log[t], r) /\ UNCHANGED pending
          ELSE /\ pending' = after
               /\ \/ /\ stack' = [stack EXCEPT ![t] =
                                     Append(SetTop(@, [Top(t) EXCEPT !.pc = "probe"]),
                                            Frame("rem.reqpay", "recv", probe.msg, NoLoc))]
                     /\ log' = [log EXCEPT ![t] =
                                   lg2 \o <<Ev("send", "npci.reqvaladd", Depth(t),
                                               [to |-> "rem.reqpay", msg |-> probe.msg,
                                                ok |-> TRUE]),
                                            Ev("recv", "rem.reqpay", Depth(t) + 1, probe.msg)>>]
                  \/ Answer(t, stack[t],
                            Append(lg2, Ev("send", "npci.reqvaladd", Depth(t),
                                           [to |-> "rem.reqpay", msg |-> probe.msg,
                                            ok |-> FALSE])),
                            r)
    /\ UNCHANGED <<remBal, beneBal>>

\* npci reqpay on a request posted to it during the address-validation run
GateReqPay(t) ==
    \E i \in ValAddRequestsTo("npci.reqpay") :
        /\ CanStart(t, i)
        /\ NpciReqPayStep(t, <<Frame("npci.reqpay", "recv", Requests[i].msg, NoLoc)>>,
                          <<Ev("recv", "npci.reqpay", 1, Requests[i].msg)>>)

\* npci resppay on a RespPay posted to it during the address-validation run
GateRespPay(t) ==
    \E i \in ValAddRequestsTo("npci.resppay") :
        /\ CanStart(t, i)
        /\ NpciRespPayStep(t, <<Frame("npci.resppay", "recv", Requests[i].msg, NoLoc)>>,
                           <<Ev("recv", "npci.resppay", 1, Requests[i].msg)>>)

Next ==
    \E t \in Threads :
        \/ PayerPspReqPay(t)
        \/ SwitchReqPay(t)
        \/ EnvRespPay(t)
        \/ NpciReqPay(t)
        \/ RemReqPay(t)
        \/ RemReqPayDebit(t)
        \/ NpciRespPay(t)
        \/ BeneReqPay(t)
        \/ PayerPspRespPay(t)

Spec == Init /\ [][Next]_vars

\* the address-validation flow, with the probe it sets off at the banks,
\* and the requests the Switch's gates turn away
NextValAdd ==
    \E t \in Threads :
        \/ PayerPspReqValAdd(t)
        \/ SwitchReqValAdd(t)
        \/ GateReqPay(t)
        \/ GateRespPay(t)
        \/ NpciReqValAdd(t)
        \/ PayeePspReqValAdd(t)
        \/ NpciReqValAddProbe(t)
        \/ RemReqPay(t)
        \/ RemReqPayDebit(t)
        \/ NpciRespPay(t)
        \/ BeneReqPay(t)

SpecValAdd == Init /\ [][NextValAdd]_vars

\* One chain run to its end, on any request of either flow.  No guard of
\* a handler's step reads what another chain does (a step waits for its
\* own call only, and the dict operations never block), so whether a chain
\* ends is decided by the chain alone.
NextFair ==
    \/ PayerPspReqPay(1)
    \/ SwitchReqPay(1)
    \/ EnvRespPay(1)
    \/ PayerPspReqValAdd(1)
    \/ SwitchReqValAdd(1)
    \/ GateReqPay(1)
    \/ GateRespPay(1)
    \/ PspGateReqPay(1)
    \/ NpciReqPay(1)
    \/ RemReqPay(1)
    \/ RemReqPayDebit(1)
    \/ NpciRespPay(1)
    \/ BeneReqPay(1)
    \/ PayerPspRespPay(1)
    \/ NpciReqValAdd(1)
    \/ PayeePspReqValAdd(1)
    \/ NpciReqValAddProbe(1)

\* The request runs in a thread of its server (werkzeug serves threaded),
\* a handler's code between two calls is straight-line, and every
\* requests.post carries a timeout, so a call returns or raises: as long
\* as a handler of the chain can take its next step, it does.
FairSpec == Init /\ [][NextFair]_vars /\ WF_vars(NextFair)

\* ------------------------------------------------ reading the logs
\* the events of kind ev that handler h logged in thread t
Events(t, ev, h) == {i \in DOMAIN log[t] : log[t][i].ev = ev /\ log[t][i].h = h}

\* the posts handler h made to handler to in thread t, delivered or not
Sends(t, h, to) == {i \in Events(t, "send", h) : log[t][i].x.to = to}

\* handler h of thread t has run its step on the request it received
Handled(t, h) == \E i \in Events(t, "recv", h) : i < Len(log[t])

\* the body handler h received in thread t
Received(t, h) == log[t][CHOOSE i \in Events(t, "recv", h) : TRUE].x

\* every (thread, index) of a log event that satisfies P
AllEvents(P(_, _)) ==
    UNION {{<<t, i>> : i \in {j \in DOMAIN log[t] : P(t, j)}} : t \in Threads}

StoresOf(k) ==
    AllEvents(LAMBDA t, i : log[t][i].ev = "store" /\ log[t][i].x.key = k)

CreditsOf(k) ==
    AllEvents(LAMBDA t, i : /\ log[t][i].ev = "send" /\ log[t][i].h = "npci.resppay"
                            /\ log[t][i].x.to = "bene.reqpay"
                            /\ log[t][i].x.msg.msgId = <<"credit-">> \o k)

HitsOf(k) ==
    AllEvents(LAMBDA t, i : log[t][i].ev = "pop" /\ log[t][i].x.key = k /\ log[t][i].x.hit)

\* the keys that any handler has stored under or looked up so far
Keys ==
    {log[ti[1]][ti[2]].x.key :
        ti \in AllEvents(LAMBDA t, i : log[t][i].ev \in {"store", "pop"})}

\* ------------------------------------------------------------- C1
\* C1, as stated: every correlation entry the Switch's ReqPay handler
\* stores is keyed "debit-" followed by the message id of the inbound
\* ReqPay.
C1_KeyedDebitPrefix ==
    \A t \in Threads : \A i \in Events(t, "store", "npci.reqpay") :
        log[t][i].x.key = <<"debit-">> \o Strip(Received(t, "npci.reqpay").msgId)

\* C1, amended: for every schema-valid ReqPay with a non-blank message id
\* that the Switch's handler has processed, the handler stored exactly one
\* correlation entry and then posted exactly one ReqPay to the Remitter
\* Bank; the post is of type DEBIT, and the entry's key is the inbound
\* message id itself (stripped), which is also the message id of the DEBIT.
C1_OneDebitOneEntryKeyedById ==
    \A t \in Threads :
        Handled(t, "npci.reqpay") =>
            LET m == Received(t, "npci.reqpay")
                st == Events(t, "store", "npci.reqpay")
                sd == Sends(t, "npci.reqpay", "rem.reqpay")
            IN ValidateReqPay(m) /\ Strip(m.msgId) # Blank =>
                 /\ Cardinality(st) = 1
                 /\ Cardinality(sd) = 1
                 /\ \A i \in st : \A j \in sd :
                      /\ i < j
                      /\ log[t][i].x.key = Strip(m.msgId)
                      /\ log[t][j].x.msg.txnType = "DEBIT"
                      /\ Strip(log[t][j].x.msg.msgId) = log[t][i].x.key

\* C1 witness: the Switch has stored the entry of a ReqPay that the Payer
\* PSP forwarded and the DEBIT has reached the Remitter Bank.
C1_Witness ==
    \E t \in Threads :
        /\ Events(t, "recv", "psp.reqpay") # {}
        /\ Events(t, "store", "npci.reqpay") # {}
        /\ Events(t, "recv", "rem.reqpay") # {}
        /\ Received(t, "npci.reqpay").msgId \in DOMAIN pending

\* ------------------------------------------------------------- C2
\* the RespPay handler of thread t took the branch for (type, result)
RespPayIs(t, type, result) ==
    /\ Handled(t, "npci.resppay")
    /\ ValidateRespPay(Received(t, "npci.resppay"))
    /\ Upper(Received(t, "npci.resppay").txnType) = type
    /\ Upper(Received(t, "npci.resppay").result) = result

\* the reqMsgId the RespPay handler of thread t works with
RespPayId(t) == Strip(Received(t, "npci.resppay").reqMsgId)

C3_AtMostOneCreditPerEntry ==
    /\ \A k \in Keys : Cardinality(CreditsOf(k)) <= Cardinality(StoresOf(k))
    /\ \A t \in Threads :
         RespPayIs(t, "DEBIT", "SUCCESS") =>
             \A i \in Events(t, "pop", "npci.resppay") :
                 ~log[t][i].x.hit => Events(t, "send", "npci.resppay") = {}

\* C3 witness: the same RespPay(DEBIT, SUCCESS) was handled twice for one
\* stored entry; one CREDIT was posted and the later delivery found nothing.
C3_Witness ==
    \E t1, t2 \in Threads :
        /\ t1 # t2
        /\ RespPayIs(t1, "DEBIT", "SUCCESS") /\ RespPayIs(t2, "DEBIT", "SUCCESS")
        /\ RespPayId(t1) = M1 /\ RespPayId(t2) = M1
        /\ Cardinality(StoresOf(M1)) = 1
        /\ Cardinality(CreditsOf(M1)) = 1
        /\ \E i \in Events(t2, "pop", "npci.resppay") : ~log[t2][i].x.hit

C5_CreditSuccessFinal ==
    \A t \in Threads :
        /\ RespPayIs(t, "CREDIT", "SUCCESS")
        /\ StartsWith(RespPayId(t), <<"credit-">>)
        /\ ~StartsWith(Tail(RespPayId(t)), <<"debit-">>)
        => LET sd == Sends(t, "npci.resppay", "psp.resppay")
           IN /\ Cardinality(sd) = 1
              /\ Events(t, "send", "npci.resppay") = sd
              /\ \A j \in sd :
                   LET f == log[t][j].x.msg
                   IN /\ f.kind = "RespPay" /\ f.result = "SUCCESS"
                      /\ <<"credit-">> \o f.reqMsgId = RespPayId(t)

\* C5 witness: the Payer PSP has received the final RespPay(SUCCESS) for m1
\* that the Switch posted on a RespPay(CREDIT, SUCCESS) for credit-m1.
C5_Witness ==
    \E t \in Threads :
        /\ RespPayIs(t, "CREDIT", "SUCCESS")
        /\ RespPayId(t) = CM1
        /\ \E i \in Events(t, "recv", "psp.resppay") :
             log[t][i].x.reqMsgId = M1 /\ log[t][i].x.result = "SUCCESS"

\* ------------------------------------------------------------- C6
\* C6, as stated: a RespPay(DEBIT, FAILURE) whose reqMsgId does not start
\* with "debit-" makes the Switch post exactly one RespPay(FAILURE) to the
\* Payer PSP for that reqMsgId, with the errCode the bank's RespPay carries.
C6_EchoesBankErrCode ==
    \A t \in Threads :
        RespPayIs(t, "DEBIT", "FAILURE") /\ ~StartsWith(RespPayId(t), <<"debit-">>) =>
            LET sd == Sends(t, "npci.resppay", "psp.resppay")
            IN /\ Cardinality(sd) = 1
               /\ \A j \in sd :
                    LET f == log[t][j].x.msg
                    IN /\ f.result = "FAILURE"
                       /\ f.reqMsgId = RespPayId(t)
                       /\ f.errCode = Received(t, "npci.resppay").errCode

\* C6, amended: a RespPay(DEBIT, FAILURE) whose reqMsgId is not blank and
\* does not start with "debit-" makes the Switch post exactly one
\* RespPay(FAILURE) to the Payer PSP for that reqMsgId; its errCode is the
\* one the bank's RespPay carries when that is not empty, and
\* INSUFFICIENT_BALANCE when it is empty or absent.  With a blank reqMsgId
\* the Switch posts nothing.
C6_EchoesOrDefaultsErrCode ==
    \A t \in Threads :
        RespPayIs(t, "DEBIT", "FAILURE") /\ ~StartsWith(RespPayId(t), <<"debit-">>) =>
            LET sd == Sends(t, "npci.resppay", "psp.resppay")
                bank == Received(t, "npci.resppay").errCode
            IN /\ Events(t, "send", "npci.resppay") = sd
               /\ RespPayId(t) = Blank => sd = {}
               /\ RespPayId(t) # Blank =>
                    /\ Cardinality(sd) = 1
                    /\ \A j \in sd :
                         LET f == log[t][j].x.msg
                         IN /\ f.kind = "RespPay" /\ f.result = "FAILURE"
                            /\ f.reqMsgId = RespPayId(t)
                            /\ bank # "" => f.errCode = bank
                            /\ bank = "" => f.errCode = "INSUFFICIENT_BALANCE"

\* C6 witness: the Payer PSP has received the final RespPay(FAILURE) that
\* carries the error code of the bank's RespPay(DEBIT, FAILURE).
C6_Witness ==
    \E t \in Threads :
        /\ RespPayIs(t, "DEBIT", "FAILURE")
        /\ Received(t, "npci.resppay").errCode = "E1"
        /\ \E i \in Events(t, "recv", "psp.resppay") :
             log[t][i].x.reqMsgId = M1 /\ log[t][i].x.errCode = "E1"

\* ------------------------------------------------- C7, C8, C9, C10
\* every post of the chain of thread t was delivered
AllReachable(t) == \A i \in DOMAIN log[t] : log[t][i].ev = "send" => log[t][i].x.ok

\* thread t ran the ReqPay m from the Payer PSP on and its chain has ended
Settled(t, m) ==
    /\ Done(t)
    /\ Events(t, "recv", "psp.reqpay") # {}
    /\ Received(t, "psp.reqpay") = m

\* thread t logged, at some index above i, a post from handler h to handler
\* to of a RespPay with the given type, result and error code
RespPayPosted(t, i, h, to, type, result, errCode) ==
    {j \in Sends(t, h, to) :
        /\ j > i
        /\ log[t][j].x.msg.kind = "RespPay"
        /\ log[t][j].x.msg.txnType = type
        /\ log[t][j].x.msg.result = result
        /\ log[t][j].x.msg.errCode = errCode}

\* C7, as stated: once the chain of a ReqPay of 100.00 from A to B has
\* ended with every node reachable, it has performed in this order the
\* debit at the Remitter Bank, the RespPay(DEBIT, SUCCESS) to the Switch,
\* the CREDIT to the Beneficiary Bank, the RespPay(CREDIT, SUCCESS) to the
\* Switch, and the final RespPay(SUCCESS) for the original message id to
\* the Payer PSP.
C7_EndToEndSuccess ==
    \A t \in Threads :
        Settled(t, BaseReqPay) /\ AllReachable(t) =>
            \E i1 \in Events(t, "debit", "rem.reqpay") :
            \E i2 \in RespPayPosted(t, i1, "rem.reqpay", "npci.resppay", "DEBIT", "SUCCESS", "") :
            \E i3 \in Sends(t, "npci.resppay", "bene.reqpay") :
            \E i4 \in RespPayPosted(t, i3, "bene.reqpay", "npci.resppay", "CREDIT", "SUCCESS", "") :
            \E i5 \in Events(t, "recv", "psp.resppay") :
                /\ i2 < i3 /\ i4 < i5
                /\ log[t][i3].x.msg.txnType = "CREDIT"
                /\ log[t][i5].x.result = "SUCCESS"
                /\ log[t][i5].x.reqMsgId = BaseReqPay.msgId

\* C8, as stated: once the chain of a ReqPay of 100.00 from a payer whose
\* balance is 50.00 has ended with every node reachable, the Remitter Bank
\* has posted RespPay(DEBIT, FAILURE, INSUFFICIENT_BALANCE) to the Switch,
\* no CREDIT was posted to the Beneficiary Bank, and the Payer PSP has
\* received a final RespPay(FAILURE, INSUFFICIENT_BALANCE).
C8_EndToEndInsufficientBalance ==
    \A t \in Threads :
        Settled(t, [BaseReqPay EXCEPT !.payerAddr = PayerC]) /\ AllReachable(t) =>
            /\ RespPayPosted(t, 0, "rem.reqpay", "npci.resppay", "DEBIT", "FAILURE",
                             "INSUFFICIENT_BALANCE") # {}
            /\ Sends(t, "npci.resppay", "bene.reqpay") = {}
            /\ \E i \in Events(t, "recv", "psp.resppay") :
                 /\ log[t][i].x.result = "FAILURE"
                 /\ log[t][i].x.errCode = "INSUFFICIENT_BALANCE"

\* C9, as stated: when one ReqPay of amount a from P to Q is the only
\* transaction and it has settled, every post of it delivered, either P's
\* balance at the Remitter Bank is down by a and Q's balance at the
\* Beneficiary Bank is up by a, or both ledgers are as they were.
C9_TransferAtomic ==
    \A t \in Threads : \A i \in RequestsTo("psp.reqpay") :
        LET m == Requests[i].msg
            a == ParseAmount(m.amount)
        IN /\ Settled(t, m) /\ AllReachable(t)
           /\ \A u \in Threads \ {t} : log[u] = <<>>
           /\ m.payerAddr \in DOMAIN RemSeed /\ m.payeeAddr \in DOMAIN BeneSeed
           => \/ /\ remBal = [RemSeed EXCEPT ![m.payerAddr] = @ - a]
                 /\ beneBal = [BeneSeed EXCEPT ![m.payeeAddr] = @ + a]
              \/ remBal = RemSeed /\ beneBal = BeneSeed

\* C10, as stated: a schema-valid ReqPay whose amount is below the floor
\* makes the Switch store no correlation entry and post no DEBIT to the
\* Remitter Bank, and answer its caller with the amount violation.
C10_BelowFloorRejectedAtSwitch ==
    \A t \in Threads :
        /\ Handled(t, "npci.reqpay")
        /\ ValidateReqPay(Received(t, "npci.reqpay"))
        /\ ParseAmount(Received(t, "npci.reqpay").amount) < MIN_TXN_AMOUNT
        => /\ Events(t, "store", "npci.reqpay") = {}
           /\ Sends(t, "npci.reqpay", "rem.reqpay") = {}
           /\ \A i \in Events(t, "resp", "npci.reqpay") :
                log[t][i].x = Resp(400, "MIN_AMOUNT_VIOLATION")

\* ------------------------------------------------------------ C11
\* the chain of thread t is a client's ReqPay to the Payer PSP
IsClientReqPay(t) == log[t] # <<>> /\ log[t][1].h = "psp.reqpay"

\* the chain of thread t is a client's ReqPay below the Payer PSP's floor
BelowPspFloor(t) == IsClientReqPay(t) /\ ParseAmount(log[t][1].x.amount) < 100

\* C11: a ReqPay below the floor of 1.00 posted to the Payer PSP is
\* answered 400 in the same request and nothing else happens: the chain is
\* the arrival and the 400 (no send to the Switch or to a bank, no store
\* entry, no debit), and when no other request has run the store is empty
\* and every balance is the seeded one.
C11_BelowFloorRejectedAtPsp ==
    \A t \in Threads :
        BelowPspFloor(t) =>
            /\ Done(t)
            /\ Len(log[t]) = 2
            /\ log[t][2].ev = "resp" /\ log[t][2].h = "psp.reqpay"
            /\ log[t][2].x.status = 400
            /\ (\A u \in Threads : log[u] # <<>> => BelowPspFloor(u)) =>
                   /\ DOMAIN pending = {}
                   /\ remBal = RemSeed /\ beneBal = BeneSeed

C11_Witness ==
    \E t \in Threads :
        /\ BelowPspFloor(t) /\ Done(t)
        /\ log[t][1].x.amount = Amt(0, 50)
        /\ log[t][Len(log[t])].x = Resp(400, "INVALID_AMOUNT")

\* ------------------------------------------------------------ C12
\* C12, as stated: the floor is compared strictly at every node of the
\* payment path.  A client's ReqPay below 1.00 is rejected with 400; a
\* ReqPay of exactly 1.00 with the payer's PIN, from a payer whose balance
\* covers it, every node reachable and no other transaction running, is
\* accepted with 202, debited at the Remitter Bank and credited at the
\* Beneficiary Bank.
C12_FloorBoundaryAccepted ==
    \A t \in Threads : \A i \in RequestsTo("psp.reqpay") :
        LET m == Requests[i].msg
            a == ParseAmount(m.amount)
        IN /\ Settled(t, m) /\ AllReachable(t)
           /\ \A u \in Threads \ {t} : log[u] = <<>>
           => /\ a < MIN_TXN_AMOUNT => log[t][Len(log[t])].x.status = 400
              /\ ( /\ a = MIN_TXN_AMOUNT /\ PspValidate(m) = ""
                   /\ m.payerAddr \in DOMAIN RemSeed /\ m.payeeAddr \in DOMAIN BeneSeed
                   /\ RemSeed[m.payerAddr] >= a )
                 => /\ log[t][Len(log[t])].x.status = 202
                    /\ remBal = [RemSeed EXCEPT ![m.payerAddr] = @ - a]
                    /\ beneBal = [BeneSeed EXCEPT ![m.payeeAddr] = @ + a]

\* ------------------------------------------------------------ C13
\* the RespPay that thread t delivered to the Switch's resppay matched no
\* entry of the store: its lookup missed, or its reqMsgId is blank and no
\* lookup was made
MissedStore(t) ==
    \A i \in Events(t, "pop", "npci.resppay") : ~log[t][i].x.hit

\* C13: a RespPay(DEBIT, SUCCESS) whose reqMsgId matches no stored entry
\* makes the Switch post nothing to any node (no CREDIT, no final RespPay),
\* leaves the store as it was (the key absent before and after, every
\* other entry kept), and is still answered 200 'received'.
C13_MissSendsNothing ==
    \A t \in Threads :
        /\ Handled(t, "npci.resppay")
        /\ RespPayIs(t, "DEBIT", "SUCCESS")
        /\ MissedStore(t)
        => /\ Events(t, "send", "npci.resppay") = {}
           /\ \A i \in Events(t, "pop", "npci.resppay") :
                log[t][i].x.removed /\ log[t][i].x.kept
           /\ \E i \in Events(t, "resp", "npci.resppay") :
                log[t][i].x = Resp(200, "received")

\* a RespPay(DEBIT, SUCCESS) for m1 looked up and missed while the store
\* held an entry under another key
C13_Witness ==
    \E t \in Threads :
        /\ Done(t)
        /\ Handled(t, "npci.resppay")
        /\ RespPayIs(t, "DEBIT", "SUCCESS")
        /\ RespPayId(t) = M1
        /\ \E i \in Events(t, "pop", "npci.resppay") : ~log[t][i].x.hit
        /\ DM1 \in DOMAIN pending

\* ------------------------------------------------------------ C14
\* the answers of the Payee PSP in the chain of thread t that are a
\* schema-valid RespValAdd with status 200
ValidRespValAdds(t) ==
    {i \in Events(t, "resp", "payee.reqvaladd") :
        /\ log[t][i].x.status = 200 /\ "xml" \in DOMAIN log[t][i].x
        /\ ValidateRespValAdd(log[t][i].x.xml)}

\* C14, as stated: when the Payee PSP answers a schema-valid ReqValAdd with
\* a schema-valid RespValAdd and status 200, what the Switch's reqvaladd
\* answers its caller is that RespValAdd with status 200, whether or not a
\* probe was posted and whatever the Remitter Bank answered to it.
C14_RoundTripReturnsRespValAdd ==
    \A t \in Threads :
        \A i \in ValidRespValAdds(t) :
            \A j \in Events(t, "resp", "npci.reqvaladd") :
                log[t][j].x = log[t][i].x

\* ------------------------------------------------------------ C15
\* C15, as stated: the Switch's reqvaladd stores an entry and posts the
\* probe ReqPay(DEBIT) to the Remitter Bank only when the RespValAdd of
\* the Payee PSP has result SUCCESS, the entry keyed "debit-" followed by
\* the message id; when the result is FAILURE it does neither.
C15_ProbeOnlyOnSuccess ==
    \A t \in Threads :
        /\ \A i \in Events(t, "store", "npci.reqvaladd") :
             /\ \E j \in ValidRespValAdds(t) :
                  j < i /\ log[t][j].x.xml.result = "SUCCESS"
             /\ log[t][i].x.key = <<"debit-">> \o Strip(Received(t, "npci.reqvaladd").msgId)
        /\ \A i \in Sends(t, "npci.reqvaladd", "rem.reqpay") :
             \E j \in ValidRespValAdds(t) :
                  j < i /\ log[t][j].x.xml.result = "SUCCESS"

\* ------------------------------------------------------------ C16
\* the Switch's three endpoints
SwitchHandlers == {"npci.reqvaladd", "npci.reqpay", "npci.resppay"}

\* the request m is one the Switch's gate turns away: no body, a content
\* type that is neither XML nor octet-stream, or a body that does not
\* conform to its schema
TurnedAway(m) ==
    \/ m.kind = ""
    \/ "ctype" \in DOMAIN m /\ m.ctype = "text/plain"
    \/ ~m.valid

\* C16: a request that the gate of the Switch's reqvaladd, reqpay or
\* resppay turns away has no side effect.  In every step in which such a
\* request is answered, the store stays as it is and the ledgers too, and
\* the answer, a 400 or a 415, is the only thing the handler did: it
\* directly follows the arrival of the request in the chain's log, with no
\* post, no store and no lookup in between.
C16_RejectedNoSideEffect ==
    [][\A t \in Threads : \A h \in SwitchHandlers :
         \A i \in DOMAIN log'[t] :
            /\ log'[t][i].ev = "recv" /\ log'[t][i].h = h
            /\ TurnedAway(log'[t][i].x)
            /\ i >= Len(log[t])
            /\ i < Len(log'[t])
            => /\ log'[t][i + 1].ev = "resp" /\ log'[t][i + 1].h = h
               /\ log'[t][i + 1].x.status \in {400, 415}
               /\ \A j \in DOMAIN log'[t] :
                    j > i /\ log'[t][j].h = h /\ log'[t][j].d = log'[t][i].d => j = i + 1
               /\ pending' = pending /\ remBal' = remBal /\ beneBal' = beneBal]_vars

\* a RespPay for the probe's key posted as text/plain was turned away and
\* the probe's entry is in the store
C16_Witness ==
    \E t \in Threads :
        /\ Done(t)
        /\ log[t][1].h = "npci.resppay"
        /\ log[t][1].x.kind = "RespPay"
        /\ TurnedAway(log[t][1].x)
        /\ Strip(log[t][1].x.reqMsgId) \in DOMAIN pending

\* ------------------------------------------------------------ C17
\* every debit that the Remitter Bank granted on account v, as <<t, i>>
DebitsOn(v) ==
    UNION {{<<t, i>> : i \in {j \in Events(t, "debit", "rem.reqpay") : log[t][j].x.vpa = v}}
             : t \in Threads}

\* the sum of the amounts of a set of debit events
RECURSIVE SumAmounts(_)
SumAmounts(S) ==
    IF S = {} THEN 0
    ELSE LET e == CHOOSE x \in S : TRUE
         IN log[e[1]][e[2]].x.amount + SumAmounts(S \ {e})

\* C17, as stated: at the Remitter Bank the balance check and the balance
\* write of one request are not interleaved with those of another, so no
\* granted debit is lost and two debits that together exceed the balance are
\* not both granted: every balance is the seeded one less the debits
\* granted on it.
C17_LedgerAtomic ==
    \A v \in DOMAIN RemSeed : remBal[v] = RemSeed[v] - SumAmounts(DebitsOn(v))

\* ------------------------------------------------------------ C18
\* no balance is negative
NonNegative ==
    /\ \A v \in DOMAIN remBal : remBal[v] >= 0
    /\ \A v \in DOMAIN beneBal : beneBal[v] >= 0

\* a step that changes the Remitter Bank's ledger is the write of that
\* bank's reqpay handler: one account, the payer's of the request, set to
\* the balance the handler read less the amount.  A step that changes the
\* Beneficiary Bank's ledger is a step of that bank's reqpay handler.
OwnHandlerWrites ==
    /\ remBal' # remBal =>
         \E t \in Threads :
            /\ At(t, "rem.reqpay", "apply")
            /\ log'[t] # log[t]
            /\ LET parsed == Top(t).loc.parsed
                   acct == Top(t).loc.acct
               IN remBal' = [remBal EXCEPT ![parsed.payerAddr] = acct.balance - parsed.amount]
    /\ beneBal' # beneBal =>
         \E t \in Threads : At(t, "bene.reqpay", "recv") /\ log'[t] # log[t]

\* C18: every balance at the Remitter Bank and at the Beneficiary Bank is
\* non-negative in every reachable state, and a ledger is changed only by
\* a step of the reqpay handler of the bank that owns it.
C18_BalancesNonNegative == []NonNegative /\ [][OwnHandlerWrites]_vars

\* one debit was granted and another request was refused for want of
\* balance, the account of the refused one untouched
C18_Witness ==
    /\ \E t \in Threads : Events(t, "debit", "rem.reqpay") # {}
    /\ \E t \in Threads :
         /\ Done(t)
         /\ \E i \in Events(t, "resp", "rem.reqpay") :
              log[t][i].x = Resp(400, "INSUFFICIENT_BALANCE")
    /\ remBal[PayerC] = RemSeed[PayerC]
    /\ remBal[PayerA] < RemSeed[PayerA]

\* ------------------------------------------------------------ C19
\* the posts of the Switch's reqpay to the Remitter Bank, in the chain of
\* thread t, that raised RequestException
DebitUnreachable(t) ==
    {i \in Sends(t, "npci.reqpay", "rem.reqpay") : ~log[t][i].x.ok}

\* C19: when the Remitter Bank cannot be reached while the Switch routes a
\* ReqPay, the Switch's reqpay answers 502 with the reason
\* REM_BANK_UNREACHABLE, at once and never with 202.
C19_UnreachableRemGives502 ==
    \A t \in Threads :
        \A i \in DebitUnreachable(t) :
            /\ i < Len(log[t])
            /\ log[t][i + 1] = Ev("resp", "npci.reqpay", log[t][i].d,
                                  Resp(502, "REM_BANK_UNREACHABLE"))
            /\ \A j \in Events(t, "resp", "npci.reqpay") : log[t][j].x.status # 202

\* a client's ReqPay passed the Payer PSP, the Switch stored its entry and
\* could not reach the Remitter Bank, and the client was answered 502
C19_Witness ==
    \E t \in Threads :
        /\ Done(t)
        /\ IsClientReqPay(t)
        /\ DebitUnreachable(t) # {}
        /\ Events(t, "store", "npci.reqpay") # {}
        /\ log[t][Len(log[t])] = Ev("resp", "psp.reqpay", 1, Resp(502, "REM_BANK_UNREACHABLE"))

\* ------------------------------------------------------------ C20
\* the 202 answers of the Switch's reqpay in the chain of thread t
Accepted(t) ==
    {i \in Events(t, "resp", "npci.reqpay") : log[t][i].x.status = 202}

\* C20, as stated: the Switch answers 'accepted' right after dispatching
\* the DEBIT: in the chain of a ReqPay the 202 of the Switch's reqpay comes
\* before the Switch's resppay receives the RespPay(DEBIT) of that chain
\* and before a final RespPay reaches the Payer PSP.
C20_AcceptedBeforeRespPay ==
    \A t \in Threads : \A i \in Accepted(t) :
        \A j \in Events(t, "recv", "npci.resppay") \cup Events(t, "recv", "psp.resppay") :
            i < j

\* C20, amended: the Switch's reqpay answers 202 only once the Remitter
\* Bank has answered the DEBIT, and the bank answers after its post of
\* RespPay(DEBIT, SUCCESS) for the message id.  So before the 202 the bank
\* has debited and posted that RespPay, and when the post was delivered
\* the Switch's resppay has handled and answered it; everything the chain
\* does at the banks and at the Switch's resppay precedes the 202.
C20_AcceptedAfterRespPayHandled ==
    \A t \in Threads : \A i \in Accepted(t) :
        /\ \E j \in Sends(t, "rem.reqpay", "npci.resppay") :
             /\ j < i
             /\ \E k \in Events(t, "debit", "rem.reqpay") : k < j
             /\ log[t][j].x.msg.txnType = "DEBIT" /\ log[t][j].x.msg.result = "SUCCESS"
             /\ log[t][j].x.msg.reqMsgId = Strip(Received(t, "npci.reqpay").msgId)
             /\ log[t][j].x.ok =>
                  \E k \in Events(t, "resp", "npci.resppay") :
                      j < k /\ k < i /\ log[t][k].x = Resp(200, "received")
        /\ \A j \in DOMAIN log[t] : log[t][j].d > log[t][i].d => j < i

\* the chain of a client's ReqPay of 100.00 has ended with 202: the Switch's
\* resppay had received the RespPay(DEBIT) and posted the CREDIT before
\* the Switch's reqpay answered
C20_Witness ==
    \E t \in Threads :
        /\ Settled(t, BaseReqPay)
        /\ log[t][Len(log[t])].x = Resp(202, "accepted")
        /\ \E i \in Accepted(t) :
             /\ \E j \in Events(t, "recv", "npci.resppay") : j < i
             /\ \E j \in Sends(t, "npci.resppay", "bene.reqpay") : j < i

\* ------------------------------------------------------------- C21
\* the events that the step appended to the log of thread t
Appended(t) == {i \in DOMAIN log'[t] : i > Len(log[t])}

\* A step that stores an entry leaves the store holding, under the key,
\* the entry of this request, whatever the key held before, and the
\* handler goes on to its dispatch.
StoreOverwrites ==
    \A t \in Threads : \A i \in Appended(t) :
        log'[t][i].ev = "store" =>
            LET k == log'[t][i].x.key
            IN /\ k \in DOMAIN pending'
               /\ pending'[k] = log'[t][i].x.info
               /\ \E j \in Appended(t) : j > i /\ log'[t][j].ev = "send"

\* A step that sends a CREDIT builds it from the entry the store held
\* under the looked-up key, and leaves the store without that key.
CreditFromHeldEntry ==
    \A t \in Threads : \A i \in Appended(t) :
        /\ log'[t][i].ev = "send"
        /\ log'[t][i].h = "npci.resppay"
        /\ log'[t][i].x.to = "bene.reqpay"
        => \E j \in Appended(t) :
             /\ j < i /\ log'[t][j].ev = "pop"
             /\ LET k == log'[t][j].x.key
                IN /\ k \in DOMAIN pending
                   /\ log'[t][i].x.msg = BuildReqPayCredit(pending[k])
                   /\ k \notin DOMAIN pending'

\* C21: storing under a key that already holds an entry replaces the entry
\* and does not fail: after the store the key holds the later request's
\* entry, and a CREDIT is only ever built from the entry held at the
\* lookup, which the lookup removes, so two stores under one key are
\* followed by at most one CREDIT for it.
C21_OverwriteKeepsLatest == [][StoreOverwrites /\ CreditFromHeldEntry]_vars

\* C21 witness: two requests stored different entries under one key, both
\* debits were answered, and one RespPay(DEBIT, SUCCESS) found the entry and
\* sent the one CREDIT while the other found nothing.
C21_Witness ==
    \E k \in Keys :
        /\ \E a \in StoresOf(k) : \E b \in StoresOf(k) :
              /\ a[1] # b[1]
              /\ log[a[1]][a[2]].x.info # log[b[1]][b[2]].x.info
              /\ \E j \in Events(a[1], "pop", "npci.resppay") :
                    log[a[1]][j].x.key = k /\ log[a[1]][j].x.hit
                      /\ log[a[1]][j].x.info = log[b[1]][b[2]].x.info
              /\ \E j \in Events(b[1], "pop", "npci.resppay") :
                    log[b[1]][j].x.key = k /\ ~log[b[1]][j].x.hit
        /\ Cardinality(CreditsOf(k)) = 1

\* ------------------------------------------------------------- C22
\* the handlers of the Switch that dispatch a DEBIT to the Remitter Bank
DebitDispatchers == {"npci.reqpay", "npci.reqvaladd"}

\* the DEBITs that the Switch posted in thread t
DebitsDispatched(t) ==
    {j \in DOMAIN log[t] : /\ log[t][j].ev = "send"
                           /\ log[t][j].h \in DebitDispatchers
                           /\ log[t][j].x.to = "rem.reqpay"}

\* a lookup of key k by another thread than t found the entry
ConsumedElsewhere(t, k) == \E ti \in HitsOf(k) : ti[1] # t

RespPayRouted(t, type, result) ==
    /\ RespPayIs(t, type, result)
    /\ ContentType(Received(t, "npci.resppay")) = "application/xml"

\* the posts that the RespPay handler of thread t made, to any node
RespPaySends(t) == Events(t, "send", "npci.resppay")

\* C23: the Switch's handling of a RespPay(DEBIT, FAILURE) with a
\* non-blank reqMsgId looks the reqMsgId up once and leaves the store
\* without that key and with every other entry as it was; when the
\* reqMsgId starts with "debit-" the handler posts nothing to any node;
\* the sender is answered 200.
C23_DebitFailureRemovesProbeSilent ==
    \A t \in Threads :
        RespPayRouted(t, "DEBIT", "FAILURE") /\ RespPayId(t) # Blank =>
            LET pops == Events(t, "pop", "npci.resppay")
            IN /\ Cardinality(pops) = 1
               /\ \A i \in pops : /\ log[t][i].x.key = RespPayId(t)
                                  /\ log[t][i].x.removed
                                  /\ log[t][i].x.kept
               /\ Head(RespPayId(t)) = "debit-" =>
                    /\ RespPaySends(t) = {}
                    /\ log[t][Len(log[t])] =
                         Ev("resp", "npci.resppay", 1, Resp(200, "received"))

\* C23 witness: a RespPay(DEBIT, FAILURE) for the id of a probe was handled
\* while the probe's entry was in the store.
C23_Witness ==
    \E t \in Threads :
        /\ RespPayRouted(t, "DEBIT", "FAILURE")
        /\ RespPayId(t) # Blank /\ Head(RespPayId(t)) = "debit-"
        /\ \E i \in Events(t, "pop", "npci.resppay") : log[t][i].x.hit

\* ------------------------------------------------------------- C24
\* m is a RespPay that passes the gate, of type CREDIT, and not the
\* success reply to a CREDIT leg of a payment: the result is not SUCCESS,
\* or the reqMsgId does not start with "credit-", or starts "credit-debit-"
CreditNotFinal(m) ==
    LET id == Strip(m.reqMsgId)
    IN /\ m.kind = "RespPay" /\ m.valid /\ ContentType(m) = "application/xml"
       /\ Upper(m.txnType) = "CREDIT"
       /\ ~(/\ Upper(m.result) = "SUCCESS"
            /\ id # Blank /\ Head(id) = "credit-"
            /\ ~(Len(id) >= 2 /\ id[2] = "debit-"))

\* the step is one of the RespPay handler of thread t
RespPayHandlerStep(t) ==
    \E i \in Appended(t) : log'[t][i].h = "npci.resppay" /\ log'[t][i].ev # "recv"

\* C24: the Switch's handling of a RespPay of type CREDIT that is not a
\* success with a reqMsgId starting "credit-" and not "credit-debit-"
\* (every CREDIT FAILURE, every reply to the CREDIT of a probe) leaves the
\* correlation store as it was, looks nothing up, posts nothing to any
\* node, and answers the sender 200.
C24_OtherCreditIgnored ==
    [][\A t \in Threads :
          RespPayHandlerStep(t) /\ CreditNotFinal(Received(t, "npci.resppay")') =>
              /\ pending' = pending
              /\ \A i \in Appended(t) : log'[t][i].ev \in {"recv", "resp"}
              /\ log'[t][Len(log'[t])] =
                   Ev("resp", "npci.resppay", 1, Resp(200, "received"))]_vars

\* C24 witness: a RespPay(CREDIT, FAILURE) for the CREDIT leg of a payment
\* has been handled, and the store holds the entry of a payment.
C24_Witness ==
    /\ DOMAIN pending # {}
    /\ \E t \in Threads :
          /\ Done(t) /\ CreditNotFinal(log[t][1].x)
          /\ Upper(log[t][1].x.result) = "FAILURE"
          /\ Head(Strip(log[t][1].x.reqMsgId)) = "credit-"

\* ------------------------------------------------------------- C25
\* the error codes with which rem_bank's reqpay refuses a debit
RemRejections ==
    {"Code Blocked for Demo", "PAYER_NOT_FOUND", "MIN_AMOUNT_VIOLATION",
     "INSUFFICIENT_BALANCE"}

\* the Remitter Bank refused the DEBIT leg that the Switch's ReqPay handler
\* dispatched in thread t
DebitRefused(t) ==
    /\ Sends(t, "npci.reqpay", "rem.reqpay") # {}
    /\ \E i \in Events(t, "resp", "rem.reqpay") :
          log[t][i].x.status = 400 /\ log[t][i].x.body \in RemRejections

\* C25, as stated: once the chain of a ReqPay that passed the Switch's gate
\* has ended with every node reachable and the Remitter Bank refused the
\* DEBIT, the Payer PSP has received a final RespPay(FAILURE) for the id of
\* the ReqPay.
C25_RefusalBecomesFinalFailure ==
    \A t \in Threads :
        Done(t) /\ AllReachable(t) /\ DebitRefused(t) =>
            \E i \in Events(t, "recv", "psp.resppay") :
                /\ log[t][i].x.result = "FAILURE"
                /\ log[t][i].x.reqMsgId = Strip(Received(t, "npci.reqpay").msgId)

\* ------------------------------------------------------------- C26
\* the step is the RespPay handler's, in some thread, on a RespPay of type
\* DEBIT whose reqMsgId is k
DebitRespPayStepFor(k) ==
    \E t \in Threads :
        /\ RespPayHandlerStep(t)
        /\ LET m == Received(t, "npci.resppay")'
           IN /\ Upper(m.txnType) = "DEBIT"
              /\ Upper(m.result) \in {"SUCCESS", "FAILURE"}
              /\ Strip(m.reqMsgId) = k

\* the step is one that stores an entry under k
StoreStepFor(k) ==
    \E t \in Threads : \E i \in Appended(t) :
        log'[t][i].ev = "store" /\ log'[t][i].x.key = k

AllAnswered(t) ==
    \A i \in DOMAIN log[t] :
        log[t][i].ev = "recv" =>
            \E j \in DOMAIN log[t] :
                /\ j > i /\ log[t][j].ev = "resp"
                /\ log[t][j].h = log[t][i].h /\ log[t][j].d = log[t][i].d

\* C27: under fair scheduling, the chain of handler invocations that a
\* request starts comes to its end, and at its end every invocation in it,
\* the Switch's reqvaladd, reqpay and resppay and the callbacks nested in
\* them, has returned a response, whether its downstream calls were
\* answered or failed in transport.
C27_EveryInvocationReturns ==
    \A t \in Threads : (stack[t] # <<>>) ~> (Done(t) /\ AllAnswered(t))

\* C27 witness: a chain in which the Switch's reqvaladd called the Remitter
\* Bank, which called back the Switch's resppay, which called the
\* Beneficiary Bank, has ended with every invocation answered.
C27_Witness ==
    \E t \in Threads :
        /\ Done(t) /\ AllAnswered(t)
        /\ Events(t, "resp", "npci.reqvaladd") # {}
        /\ Events(t, "resp", "npci.resppay") # {}
        /\ Events(t, "resp", "bene.reqpay") # {}

\* ------------------------------------------------------------- C28
\* the posts of the Switch's RespPay handler that the step of thread t
\* logged as failed in transport
FailedRespPayPosts(t) ==
    {i \in Appended(t) : /\ log'[t][i].ev = "send" /\ log'[t][i].h = "npci.resppay"
                         /\ ~log'[t][i].x.ok}

\* C28: a step in which the RespPay handler's post of the CREDIT or of the
\* final RespPay fails in transport changes no ledger, leaves the key it
\* looked up out of the store, logs that one post and no other, answers
\* the sender of the RespPay 200 'received' right after it, and what
\* follows in the chain are the answers of the callers only.
C28_FailedForwardNoRollback ==
    [][\A t \in Threads : \A i \in FailedRespPayPosts(t) :
          /\ remBal' = remBal /\ beneBal' = beneBal
          /\ \A j \in Appended(t) :
                log'[t][j].ev = "pop" => log'[t][j].x.key \notin DOMAIN pending'
          /\ \A j \in Appended(t) : log'[t][j].ev \in {"send", "store", "debit"} => j = i
          /\ log'[t][i + 1].ev = "resp" /\ log'[t][i + 1].h = "npci.resppay"
          /\ log'[t][i + 1].x = Resp(200, "received")
          /\ \A j \in Appended(t) : j > i => log'[t][j].ev = "resp"]_vars

\* C28 witness: a chain has ended in which the payer was debited, the
\* entry was found, and the post of the CREDIT failed in transport; the
\* payer's balance is below its seed and the key is not in the store.
C28_Witness ==
    \E t \in Threads :
        /\ Done(t)
        /\ Events(t, "debit", "rem.reqpay") # {}
        /\ \E i \in Sends(t, "npci.resppay", "bene.reqpay") : ~log[t][i].x.ok
        /\ \E i \in Events(t, "pop", "npci.resppay") :
              log[t][i].x.hit /\ log[t][i].x.key \notin DOMAIN pending
        /\ remBal[PayerA] < RemSeed[PayerA]

SwitchPosts(t) ==
    {i \in DOMAIN log[t] : /\ log[t][i].ev = "send"
                           /\ log[t][i].h \in {"npci.reqpay", "npci.resppay"}}

\* C30: always, an invocation of the Switch's ReqPay or RespPay handler
\* posts at most once, whether the post was delivered and accepted,
\* delivered and refused, or failed in transport: one DEBIT to the Remitter Bank per
\* ReqPay and nothing else; per RespPay one CREDIT to the Beneficiary Bank
\* or one final RespPay to the Payer PSP, and nothing to the Remitter Bank.
C30_NoRetry ==
    [](\A t \in Threads : \A i \in SwitchPosts(t) :
        /\ \A j \in SwitchPosts(t) :
              log[t][j].h = log[t][i].h /\ log[t][j].d = log[t][i].d => j = i
        /\ log[t][i].h = "npci.reqpay" => log[t][i].x.to = "rem.reqpay"
        /\ log[t][i].h = "npci.resppay" => log[t][i].x.to \in {"bene.reqpay", "psp.resppay"})

\* C30 witness: one chain has ended whose DEBIT the Remitter Bank refused,
\* another whose CREDIT post failed in transport, each after a single post.
C30_Witness ==
    /\ \E t \in Threads :
          /\ Done(t) /\ DebitRefused(t)
          /\ Cardinality(Sends(t, "npci.reqpay", "rem.reqpay")) = 1
    /\ \E t \in Threads :
          /\ Done(t)
          /\ Cardinality(Sends(t, "npci.resppay", "bene.reqpay")) = 1
          /\ \E i \in Sends(t, "npci.resppay", "bene.reqpay") : ~log[t][i].x.ok

\* ------------------------------------------------------------- C31
\* the DEBITs that the step dispatched from the Switch in thread t
DispatchedNow(t) ==
    {j \in Appended(t) : /\ log'[t][j].ev = "send"
                         /\ log'[t][j].h \in DebitDispatchers
                         /\ log'[t][j].x.to = "rem.reqpay"}

\* the lookups that the step made in thread t while the handler that
\* dispatched the DEBIT is still blocked in that call, two frames below
LookedUpDuringDispatch(t) ==
    {i \in Appended(t) : /\ log'[t][i].ev = "pop"
                         /\ log'[t][i].d >= 3
                         /\ stack[t][log'[t][i].d - 2].h \in DebitDispatchers
                         /\ stack[t][log'[t][i].d - 2].pc \in {"wait", "probe"}}

HasDebitPrefix(id) == id # Blank /\ id[1] = "debit-"

\* the id is that of a probe's CREDIT leg: it starts with "credit-debit-"
HasCreditDebitPrefix(id) == Len(id) >= 2 /\ id[1] = "credit-" /\ id[2] = "debit-"

\* the final RespPays posted to the Payer PSP in thread t
FinalsOf(t) ==
    {i \in DOMAIN log[t] : log[t][i].ev = "send" /\ log[t][i].x.to = "psp.resppay"}

\* C32: no final RespPay is ever posted to the Payer PSP for a message id
\* that starts with "debit-", whoever originated the message: a chain that
\* began with a payer's ReqPay carrying such an id posts none, and the
\* RespPay handler posts none on a RespPay for such an id (DEBIT, FAILURE
\* or SUCCESS) or for the id of its CREDIT leg (CREDIT, SUCCESS or FAILURE).
C32_DebitPrefixNeverFinal ==
    [](\A t \in Threads :
          /\ \A i \in FinalsOf(t) : ~HasDebitPrefix(log[t][i].x.msg.reqMsgId)
          /\ (/\ Events(t, "recv", "psp.reqpay") # {}
              /\ HasDebitPrefix(Strip(Received(t, "psp.reqpay").msgId)))
               => FinalsOf(t) = {}
          /\ (/\ Events(t, "recv", "npci.resppay") # {}
              /\ LET id == Strip(Received(t, "npci.resppay").reqMsgId)
                 IN HasDebitPrefix(id) \/ HasCreditDebitPrefix(id))
               => FinalsOf(t) = {})

\* C32 witness: a payer's ReqPay whose id starts with "debit-" was debited
\* and its CREDIT dispatched, and a RespPay(CREDIT, SUCCESS) for that CREDIT
\* has been handled by the Switch, which answered without posting a final
\* RespPay.
C32_Witness ==
    \E t, u \in Threads :
        /\ Events(t, "recv", "psp.reqpay") # {}
        /\ HasDebitPrefix(Strip(Received(t, "psp.reqpay").msgId))
        /\ Events(t, "debit", "rem.reqpay") # {}
        /\ Sends(t, "npci.resppay", "bene.reqpay") # {}
        /\ Done(u)
        /\ Events(u, "recv", "npci.resppay") # {}
        /\ LET m == Received(u, "npci.resppay")
           IN /\ Upper(m.txnType) = "CREDIT" /\ Upper(m.result) = "SUCCESS"
              /\ Strip(m.reqMsgId) =
                    <<"credit-">> \o Strip(Received(t, "psp.reqpay").msgId)
        /\ FinalsOf(u) = {}

\* ------------------------------------------------------------- C33
\* the entries stored so far by a transaction that is still in flight, as
\* (thread, index of the store event)
InFlightStores ==
    AllEvents(LAMBDA t, i : log[t][i].ev = "store" /\ stack[t] # <<>>)

\* the message id of the request that thread t came in with
InboundId(t) == log[t][1].x.msgId

\* C33, as stated: two transactions in flight at the same time, of either
\* flow, whose inbound message ids differ have stored their entries under
\* different keys.
C33_DistinctIdsDistinctKeys ==
    \A a, b \in InFlightStores :
        InboundId(a[1]) # InboundId(b[1]) =>
            log[a[1]][a[2]].x.key # log[b[1]][b[2]].x.key

\* ------------------------------------------------------------- C34
\* the answers that the Switch's ReqPay handler gave in thread t
ReqPayAnswers(t) == Events(t, "resp", "npci.reqpay")

\* C34, as stated: once the Switch's handler has answered a ReqPay with a
\* status other than 202, the store holds no entry under that ReqPay's
\* message id (no other request having stored under the same key).
C34_NotAcceptedLeavesNoEntry ==
    \A t \in Threads : \A i \in ReqPayAnswers(t) :
        LET k == Strip(Received(t, "npci.reqpay").msgId)
        IN /\ log[t][i].x.status # 202
           /\ \A s \in StoresOf(k) : s[1] = t
           => k \notin DOMAIN pending

\* ------------------------------------------------------------- C35
\* the answers that the step appended for the Remitter Bank's handler in
\* thread t
RemAnsweredNow(t) ==
    {i \in Appended(t) : log'[t][i].ev = "resp" /\ log'[t][i].h = "rem.reqpay"}

\* what the Remitter Bank's handler of thread t did beside answering
RemEffects(t) ==
    {i \in DOMAIN log[t] : log[t][i].h = "rem.reqpay" /\ log[t][i].ev \in {"debit", "send"}}

\* the body gives the Remitter Bank a reason to refuse it, whatever the
\* ledger holds: no payer address or message id, the blocked payer code,
\* an amount below the floor
RefusedOnSight(m) ==
    \/ m.payerAddr = "" \/ Strip(m.msgId) = Blank
    \/ m.payerCode = "1111"
    \/ ParseAmount(m.amount) < MIN_TXN_AMOUNT

\* the account read by the handler of thread t gives it a reason to refuse
RefusedOnAccount(t) ==
    /\ At(t, "rem.reqpay", "apply")
    /\ \/ ~Top(t).loc.acct.found
       \/ Top(t).loc.acct.balance < ParseAmount(Top(t).msg.amount)

C36_EveryCreditAnswered ==
    \A t \in Threads :
        (Handled(t, "bene.reqpay") /\ Upper(Received(t, "bene.reqpay").txnType) = "CREDIT")
        => LET sd == Sends(t, "bene.reqpay", "npci.resppay")
           IN /\ Cardinality(sd) = 1
              /\ \A j \in sd :
                   /\ log[t][j].x.msg.txnType = "CREDIT"
                   /\ log[t][j].x.msg.result \in {"SUCCESS", "FAILURE"}
                   /\ log[t][j].x.msg.result = "FAILURE" => log[t][j].x.msg.errCode # ""

\* ------------------------------------------------------------- C37
\* every request that has come in so far is an address validation, and
\* each has been processed to its end
OnlyValidationsAllDone ==
    /\ \E t \in Threads : log[t] # <<>>
    /\ \A t \in Threads :
          log[t] # <<>> =>
             /\ Done(t)
             /\ log[t][1].h \in {"psp.reqvaladd", "npci.reqvaladd"}

\* C37, as stated: when address validations are all that has run, and each
\* has been processed to its end, probe and replies included, every balance
\* at both banks is what it was before, and nothing has been posted to the
\* Payer PSP.
C37_ValidationLeavesLedgers ==
    OnlyValidationsAllDone =>
        /\ remBal = RemSeed
        /\ beneBal = BeneSeed
        /\ \A t \in Threads : FinalsOf(t) = {}

\* ------------------------------------------------------------- C38
\* the lookups that the step made in thread t on a RespPay(DEBIT, SUCCESS)
DebitSuccessLookups(t) ==
    {i \in Appended(t) :
        /\ log'[t][i].ev = "pop"
        /\ Upper(Received(t, "npci.resppay")'.txnType) = "DEBIT"
        /\ Upper(Received(t, "npci.resppay")'.result) = "SUCCESS"}

\* what the RespPay handler posted in the step, in thread t
RespPayPostsNow(t) ==
    {i \in Appended(t) : log'[t][i].ev = "send" /\ log'[t][i].h = "npci.resppay"}

\* C38: a step in which the lookup for a RespPay(DEBIT, SUCCESS) finds an
\* entry without a payee address removes that entry and no other, posts
\* nothing (no CREDIT, no final RespPay) and answers 200; and a lookup for
\* a RespPay(DEBIT, SUCCESS) whose key the store does not hold, as on a
\* re-delivery after that, finds nothing and posts nothing.
C38_NoPayeeConsumedSilently ==
    [][\A t \in Threads : \A i \in DebitSuccessLookups(t) :
          LET k == log'[t][i].x.key
              found == log'[t][i].x
          IN /\ found.hit /\ found.info.payee_addr = "" =>
                  /\ k \in DOMAIN pending /\ k \notin DOMAIN pending'
                  /\ \A x \in DOMAIN pending \ {k} :
                        x \in DOMAIN pending' /\ pending'[x] = pending[x]
                  /\ RespPayPostsNow(t) = {}
                  /\ \E j \in Appended(t) :
                        /\ j > i
                        /\ log'[t][j] = Ev("resp", "npci.resppay", log'[t][i].d,
                                           Resp(200, "received"))
             /\ k \notin DOMAIN pending =>
                  ~found.hit /\ RespPayPostsNow(t) = {} /\ pending' = pending]_vars

\* C38 witness: the RespPay(DEBIT, SUCCESS) of a payment stored without a
\* payee address found and removed the entry and the Switch posted
\* nothing; the same RespPay delivered by another sender found no entry;
\* the key is absent.
C38_Witness ==
    \E t, u \in Threads :
        /\ t # u
        /\ \E i \in Events(t, "pop", "npci.resppay") :
              /\ log[t][i].x.hit /\ log[t][i].x.info.payee_addr = ""
              /\ log[t][i].x.key \notin DOMAIN pending
              /\ Cardinality(StoresOf(log[t][i].x.key)) = 1
              /\ \E j \in Events(u, "pop", "npci.resppay") :
                    /\ log[u][j].x.key = log[t][i].x.key /\ ~log[u][j].x.hit
                    /\ RespPayIs(u, "DEBIT", "SUCCESS")
        /\ Events(t, "send", "npci.resppay") = {}
        /\ Events(u, "send", "npci.resppay") = {}

\* ------------------------------------------------------------- C39
\* the body has a Payer address and an Amount element, the amount is at
\* least 1.0, a PIN is present, the payer is a known user, the PIN is the
\* stored one and the payee code is not 1111
MeetsPspChecks(m) ==
    /\ m.kind = "ReqPay"
    /\ m.payerAddr # ""
    /\ "r" \in DOMAIN m.amount /\ ParseAmount(m.amount) >= 100
    /\ m.pin # ""
    /\ m.payerAddr \in DOMAIN PspUsers /\ PspUsers[m.payerAddr] = m.pin
    /\ m.payeeCode # "1111"

\* C39, as stated: the Payer PSP has posted a request to the Switch only
\* if the request meets every check, and a request that fails one has been
\* answered 400 with nothing posted to the Switch.
C39_ForwardsOnlyChecked ==
    \A t \in Threads :
        (log[t] # <<>> /\ log[t][1].h = "psp.reqpay") =>
            LET m == log[t][1].x
                forwarded == Sends(t, "psp.reqpay", "npci.reqpay") # {}
            IN /\ forwarded => MeetsPspChecks(m)
               /\ ~MeetsPspChecks(m) =>
                    /\ ~forwarded
                    /\ log[t][2] = Ev("resp", "psp.reqpay", 1, log[t][2].x)
                    /\ log[t][2].x.status = 400

====
